---- MODULE Spec2Model ----
(***************************************************************************)
(* Model of the restaurant recommendation assistant                        *)
(* (backend/app/services/ai_assistant_service.py).                         *)
(*                                                                         *)
(* Python str values are TLA+ strings; TLC evaluates Len, SubSeq and \o on *)
(* strings, so substring tests, lower-casing, trimming and the regular     *)
(* expressions of the service are computed character by character.         *)
(* Python None is the value Null.  Scores are exact numbers counted in     *)
(* thousandths (4 is 4000, 0.05 is 50, average ratings are hundredths of a *)
(* star times 9), so sums are those of the decimal constants of the code.  *)
(***************************************************************************)
EXTENDS Integers, Sequences, FiniteSets, Bags, TLC

Null == "<None>"

(***************************************************************************)
(* Strings.                                                                *)
(***************************************************************************)
Upper == "ABCDEFGHIJKLMNOPQRSTUVWXYZ"
LowerAlpha == "abcdefghijklmnopqrstuvwxyz"
Digits == "0123456789"
\* the characters of the model in code-point order (what sorted() compares)
CodePoints == "\t\n !$(),-.0123456789:?ABCDEFGHIJKLMNOPQRSTUVWXYZabcdefghijklmnopqrstuvwxyz|"

Char(s, i) == SubSeq(s, i, i)

\* s[i-1:j] of Python (1-based, inclusive): a slice is cut at the end of the string
Slice(s, i, j) == IF i > j \/ i > Len(s) THEN "" ELSE SubSeq(s, i, IF j > Len(s) THEN Len(s) ELSE j)

\* c in s, for a single character c
CharIn(c, s) == \E i \in 1..Len(s) : Char(s, i) = c

IndexIn(c, s) == CHOOSE i \in 1..Len(s) : Char(s, i) = c

IsSpace(c) == c = " " \/ c = "\n" \/ c = "\t"
IsAlpha(c) == CharIn(c, Upper) \/ CharIn(c, LowerAlpha)
IsDigit(c) == CharIn(c, Digits)
\* the regex class \w
IsWordChar(c) == IsAlpha(c) \/ IsDigit(c) \/ c = "_"

LowerChar(c) == IF CharIn(c, Upper) THEN Char(LowerAlpha, IndexIn(c, Upper)) ELSE c
UpperChar(c) == IF CharIn(c, LowerAlpha) THEN Char(Upper, IndexIn(c, LowerAlpha)) ELSE c

RECURSIVE Lower(_)
\* str.lower()
Lower(s) == IF Len(s) = 0 THEN "" ELSE LowerChar(Char(s, 1)) \o Lower(SubSeq(s, 2, Len(s)))

\* t in s (Python substring test; the empty string is in every string)
Contains(s, t) == \E i \in 1..(Len(s) - Len(t) + 1) : SubSeq(s, i, i + Len(t) - 1) = t

\* s.find(t), as a 1-based index, 0 when absent
Find(s, t) ==
    IF Contains(s, t)
    THEN CHOOSE i \in 1..(Len(s) - Len(t) + 1) :
            /\ SubSeq(s, i, i + Len(t) - 1) = t
            /\ \A j \in 1..(i - 1) : SubSeq(s, j, j + Len(t) - 1) # t
    ELSE 0

RECURSIVE LStripChars(_, _)
LStripChars(s, cs) ==
    IF Len(s) > 0 /\ CharIn(Char(s, 1), cs) THEN LStripChars(SubSeq(s, 2, Len(s)), cs) ELSE s

RECURSIVE RStripChars(_, _)
RStripChars(s, cs) ==
    IF Len(s) > 0 /\ CharIn(Char(s, Len(s)), cs) THEN RStripChars(SubSeq(s, 1, Len(s) - 1), cs) ELSE s

\* s.strip(cs)
StripChars(s, cs) == RStripChars(LStripChars(s, cs), cs)

\* s.strip()
Strip(s) == StripChars(s, " \n\t")

\* a < b in code-point order
CharLess(a, b) == IndexIn(a, CodePoints) < IndexIn(b, CodePoints)

RECURSIVE StrLess(_, _)
StrLess(a, b) ==
    IF Len(b) = 0 THEN FALSE
    ELSE IF Len(a) = 0 THEN TRUE
    ELSE IF Char(a, 1) = Char(b, 1) THEN StrLess(SubSeq(a, 2, Len(a)), SubSeq(b, 2, Len(b)))
    ELSE CharLess(Char(a, 1), Char(b, 1))

\* bool(x) for a str | None
Truthy(x) == x # Null /\ x # ""

(***************************************************************************)
(* Lists.                                                                  *)
(***************************************************************************)
Take(seq, n) == SubSeq(seq, 1, IF Len(seq) < n THEN Len(seq) ELSE n)

Range(seq) == {seq[i] : i \in 1..Len(seq)}

Min(a, b) == IF a < b THEN a ELSE b

RECURSIVE SortedStrings(_)
\* sorted(S) for a set of strings
SortedStrings(S) ==
    IF S = {} THEN <<>>
    ELSE LET m == CHOOSE x \in S : \A y \in S \ {x} : StrLess(x, y)
         IN <<m>> \o SortedStrings(S \ {m})

RECURSIVE JoinStrings(_, _)
\* sep.join(seq)
JoinStrings(seq, sep) ==
    IF Len(seq) = 0 THEN ""
    ELSE IF Len(seq) = 1 THEN seq[1]
    ELSE seq[1] \o sep \o JoinStrings(Tail(seq), sep)

(***************************************************************************)
(* Module constants of the service.                                        *)
(***************************************************************************)
PRICE_SET == {"$", "$$", "$$$", "$$$$"}
DEFAULT_CUISINES ==
    {"american", "chinese", "french", "indian", "italian", "japanese", "korean",
     "mediterranean", "mexican", "thai", "vietnamese"}
DEFAULT_DIETARY ==
    {"vegetarian", "vegan", "halal", "gluten-free", "gluten free", "kosher", "keto",
     "dairy-free", "dairy free"}
DEFAULT_AMBIANCE ==
    {"casual", "fine dining", "family-friendly", "family friendly", "romantic", "quiet",
     "trendy", "outdoor"}
STOP_WORDS ==
    {"a", "an", "and", "at", "best", "by", "for", "from", "i", "in", "is", "it", "me",
     "near", "of", "on", "place", "please", "recommend", "restaurant", "restaurants",
     "show", "suggest", "something", "the", "to", "find", "want", "with"}
LOCATION_FOLLOWUP_TOKENS == {"where", "location", "located", "address"}
HOURS_FOLLOWUP_TOKENS ==
    {"hour", "hours", "open", "opening", "close", "closing", "time", "schedule"}
CONTACT_FOLLOWUP_TOKENS == {"contact", "phone", "number", "call", "email"}
PRICE_FOLLOWUP_TOKENS == {"price", "cost", "expensive", "cheap", "budget", "$"}
RATING_FOLLOWUP_TOKENS == {"rating", "rated", "stars", "star", "score", "average"}
CUISINE_FOLLOWUP_TOKENS == {"cuisine", "food", "dish", "dishes"}
AMENITY_FOLLOWUP_TOKENS ==
    {"amenity", "amenities", "parking", "wifi", "outdoor", "patio", "vegan", "vegetarian",
     "halal", "romantic", "family", "casual", "quiet", "trendy"}
FOLLOWUP_TOPIC_ORDER ==
    << <<"hours", HOURS_FOLLOWUP_TOKENS>>,
       <<"location", LOCATION_FOLLOWUP_TOKENS>>,
       <<"contact", CONTACT_FOLLOWUP_TOKENS>>,
       <<"rating", RATING_FOLLOWUP_TOKENS>>,
       <<"price", PRICE_FOLLOWUP_TOKENS>>,
       <<"amenities", AMENITY_FOLLOWUP_TOKENS>>,
       <<"cuisine", CUISINE_FOLLOWUP_TOKENS>> >>
PRONOUN_FOLLOWUP_TOKENS == {"it", "its", "that", "this", "one", "ones"}
\* the dict in insertion order: <<token, index>>, indices 0-based as in the code
ORDINAL_HINTS ==
    << <<"first", 0>>, <<"1st", 0>>, <<"second", 1>>, <<"2nd", 1>>, <<"third", 2>>,
       <<"3rd", 2>> >>
NEW_SEARCH_HINTS == {"recommend", "suggest", "find", "show", "search", "looking for", "i want"}
OCCASION_TOKENS == <<"anniversary", "birthday", "date", "dinner", "lunch", "brunch", "tonight">>

\* any(token in lowered for token in tokens)
AnyTokenIn(lowered, tokens) == \E t \in tokens : Contains(lowered, t)

(***************************************************************************)
(* Follow-up resolver: pure helpers.                                       *)
(***************************************************************************)
\* _detect_followup_type: the first topic of FOLLOWUP_TOPIC_ORDER with a token in the
\* lower-cased message, Null when there is none
DetectFollowupType(message) ==
    LET lowered == Lower(message)
        hits == {i \in 1..Len(FOLLOWUP_TOPIC_ORDER) : AnyTokenIn(lowered, FOLLOWUP_TOPIC_ORDER[i][2])}
    IN IF hits = {} THEN Null
       ELSE FOLLOWUP_TOPIC_ORDER[CHOOSE i \in hits : \A j \in hits : i <= j][1]

\* _looks_like_new_search_request
LooksLikeNewSearchRequest(message) ==
    LET lowered == Lower(message)
        has_search_verb == AnyTokenIn(lowered, NEW_SEARCH_HINTS)
        has_reference ==
            \/ AnyTokenIn(lowered, PRONOUN_FOLLOWUP_TOKENS)
            \/ \E i \in 1..Len(ORDINAL_HINTS) : Contains(lowered, ORDINAL_HINTS[i][1])
    IN has_search_verb /\ ~has_reference

\* _has_reference_hint
HasReferenceHint(message, ranked_names) ==
    LET lowered == Lower(message)
    IN \/ \E i \in 1..Len(ranked_names) : Contains(lowered, Lower(ranked_names[i]))
       \/ AnyTokenIn(lowered, PRONOUN_FOLLOWUP_TOKENS)
       \/ \E i \in 1..Len(ORDINAL_HINTS) : Contains(lowered, ORDINAL_HINTS[i][1])
       \/ Contains(lowered, "last one")
       \/ Contains(lowered, "that one")
       \/ Contains(lowered, "this one")

\* the name resolution with the ordinal hints left out
ExtractReferencedRestaurantNameWithoutOrdinals(message, ranked_names) ==
    LET lowered == Lower(message)
        named == {i \in 1..Len(ranked_names) : Contains(lowered, Lower(ranked_names[i]))}
    IN IF named # {} THEN ranked_names[CHOOSE i \in named : \A j \in named : i <= j]
       ELSE IF Contains(lowered, "last") /\ Len(ranked_names) > 0
            THEN ranked_names[Len(ranked_names)]
       ELSE IF (Contains(lowered, "top") \/ Contains(lowered, "best")) /\ Len(ranked_names) > 0
            THEN ranked_names[1]
       ELSE IF AnyTokenIn(lowered, PRONOUN_FOLLOWUP_TOKENS)
            THEN ranked_names[1]
       ELSE Null

\* the name resolution in which a pronoun resolves to no restaurant
ExtractReferencedRestaurantNameWithoutPronouns(message, ranked_names) ==
    LET lowered == Lower(message)
        named == {i \in 1..Len(ranked_names) : Contains(lowered, Lower(ranked_names[i]))}
        ordinals == {i \in 1..Len(ORDINAL_HINTS) :
                        /\ Contains(lowered, ORDINAL_HINTS[i][1])
                        /\ ORDINAL_HINTS[i][2] < Len(ranked_names)}
    IN IF named # {} THEN ranked_names[CHOOSE i \in named : \A j \in named : i <= j]
       ELSE IF ordinals # {}
            THEN ranked_names[ORDINAL_HINTS[CHOOSE i \in ordinals : \A j \in ordinals : i <= j][2] + 1]
       ELSE IF Contains(lowered, "last") /\ Len(ranked_names) > 0
            THEN ranked_names[Len(ranked_names)]
       ELSE IF (Contains(lowered, "top") \/ Contains(lowered, "best")) /\ Len(ranked_names) > 0
            THEN ranked_names[1]
       ELSE Null

\* _extract_referenced_restaurant_name, called with a non-empty ranked_names
ExtractReferencedRestaurantName(message, ranked_names) ==
    LET lowered == Lower(message)
        named == {i \in 1..Len(ranked_names) : Contains(lowered, Lower(ranked_names[i]))}
        ordinals == {i \in 1..Len(ORDINAL_HINTS) :
                        /\ Contains(lowered, ORDINAL_HINTS[i][1])
                        /\ ORDINAL_HINTS[i][2] < Len(ranked_names)}
    IN IF named # {} THEN ranked_names[CHOOSE i \in named : \A j \in named : i <= j]
       ELSE IF ordinals # {}
            THEN ranked_names[ORDINAL_HINTS[CHOOSE i \in ordinals : \A j \in ordinals : i <= j][2] + 1]
       ELSE IF Contains(lowered, "last") /\ Len(ranked_names) > 0
            THEN ranked_names[Len(ranked_names)]
       ELSE IF (Contains(lowered, "top") \/ Contains(lowered, "best")) /\ Len(ranked_names) > 0
            THEN ranked_names[1]
       ELSE IF AnyTokenIn(lowered, PRONOUN_FOLLOWUP_TOKENS)
            THEN ranked_names[1]
       ELSE Null

\* _build_followup_clarification_reply
BuildFollowupClarificationReply(ranked_names) ==
    IF Len(ranked_names) = 0
    THEN "Could you tell me which restaurant you mean? You can mention the name or say first/second."
    ELSE "I can help with details, but I need the target restaurant. Do you mean: "
            \o JoinStrings(Take(ranked_names, 3), ", ")
            \o "? You can say first/second or the exact name."

\* the reply of _handle_attribute_followup when a topic was detected and no context exists
NEED_TARGET_REPLY ==
    "I can help with that, but I need the target restaurant first. Please mention the name, or ask for a new recommendation."

(***************************************************************************)
(* Scanners for the regular expressions of the service.                    *)
(***************************************************************************)
RECURSIVE SkipSpace(_, _)
\* the first index >= p of a character that is not white space (\s*)
SkipSpace(text, p) ==
    IF p <= Len(text) /\ IsSpace(Char(text, p)) THEN SkipSpace(text, p + 1) ELSE p

RECURSIVE SkipDigits(_, _)
SkipDigits(text, p) ==
    IF p <= Len(text) /\ IsDigit(Char(text, p)) THEN SkipDigits(text, p + 1) ELSE p

RECURSIVE SkipNameChars(_, _)
\* [^\(\n\-]*
SkipNameChars(text, p) ==
    IF p <= Len(text) /\ Char(text, p) \notin {"(", "\n", "-"}
    THEN SkipNameChars(text, p + 1) ELSE p

RECURSIVE SkipAlphaSpace(_, _)
\* [a-zA-Z\s]*
SkipAlphaSpace(text, p) ==
    IF p <= Len(text) /\ (IsAlpha(Char(text, p)) \/ IsSpace(Char(text, p)))
    THEN SkipAlphaSpace(text, p + 1) ELSE p

RECURSIVE SkipAlphaHyphen(_, _)
\* [a-zA-Z\-]*
SkipAlphaHyphen(text, p) ==
    IF p <= Len(text) /\ (IsAlpha(Char(text, p)) \/ Char(text, p) = "-")
    THEN SkipAlphaHyphen(text, p + 1) ELSE p

RECURSIVE SkipDollars(_, _)
SkipDollars(text, p) ==
    IF p <= Len(text) /\ Char(text, p) = "$" THEN SkipDollars(text, p + 1) ELSE p

RECURSIVE NextLineStart(_, _)
\* the index after the first newline at or after p
NextLineStart(text, p) ==
    IF p > Len(text) THEN p
    ELSE IF Char(text, p) = "\n" THEN p + 1
    ELSE NextLineStart(text, p + 1)

RECURSIVE RankedNamesFrom(_, _)
\* the finditer loop of _extract_ranked_names from line start p:
\*   (?m)^\s*\d+\.\s*([^\(\n\-]+?)(?:\s*\(|\s*-|$)
\* the lazy group ends at the first '(', '-', newline or end of text, up to white space
\* that strip() removes; a group of white space alone is skipped by `if name`
RankedNamesFrom(text, p) ==
    IF p > Len(text) THEN <<>>
    ELSE LET q == SkipSpace(text, p)
             d == SkipDigits(text, q)
             okHead == d > q /\ d <= Len(text) /\ Char(text, d) = "."
             w == SkipSpace(text, d + 1)
             okName == okHead /\ w <= Len(text) /\ Char(text, w) \notin {"(", "-"}
             e == SkipNameChars(text, w)
         IN IF okName
            THEN <<Strip(SubSeq(text, w, e - 1))>> \o RankedNamesFrom(text, NextLineStart(text, e))
            ELSE RankedNamesFrom(text, NextLineStart(text, p))

\* _extract_ranked_names
ExtractRankedNames(text) == RankedNamesFrom(text, 1)

\* re.search(r"\${1,4}", message), then the _PRICE_SET test
HeuristicPrice(message) ==
    LET i == Find(message, "$")
        e == SkipDollars(message, i)
        m == SubSeq(message, i, Min(e - 1, i + 3))
    IN IF i = 0 THEN Null ELSE IF m \in PRICE_SET THEN m ELSE Null

LOCATION_WORDS == <<"in", "near", "around">>

\* the group of \b(?:in|near|around)\s+([a-zA-Z][a-zA-Z\s]{1,40}) matched at index i
\* (re.I), Null when the pattern does not match there
LocationMatchAt(message, i) ==
    LET lowered == Lower(message)
        boundary == i = 1 \/ ~IsWordChar(Char(message, i - 1))
        ks == {k \in 1..Len(LOCATION_WORDS) :
                  Slice(lowered, i, i + Len(LOCATION_WORDS[k]) - 1) = LOCATION_WORDS[k]}
        k == CHOOSE k \in ks : \A j \in ks : k <= j
        a == i + Len(LOCATION_WORDS[k])
        w == SkipSpace(message, a)
        e == SkipAlphaSpace(message, w)
    IN IF boundary /\ ks # {} /\ w > a /\ w <= Len(message) /\ IsAlpha(Char(message, w))
          /\ e - w >= 2
       THEN SubSeq(message, w, Min(e - 1, w + 40))
       ELSE Null

\* location of _extract_intent_heuristic: the leftmost match, stripped of " .,!?"
HeuristicLocation(message) ==
    LET hits == {i \in 1..Len(message) : LocationMatchAt(message, i) # Null}
    IN IF hits = {} THEN Null
       ELSE StripChars(LocationMatchAt(message, CHOOSE i \in hits : \A j \in hits : i <= j), " .,!?")

RECURSIVE FindAllWords(_, _)
\* re.findall(r"[a-zA-Z][a-zA-Z\-]{2,}", lowered) from index p
FindAllWords(lowered, p) ==
    IF p > Len(lowered) THEN <<>>
    ELSE LET e == SkipAlphaHyphen(lowered, p)
         IN IF IsAlpha(Char(lowered, p)) /\ e - p >= 3
            THEN <<SubSeq(lowered, p, e - 1)>> \o FindAllWords(lowered, e)
            ELSE FindAllWords(lowered, p + 1)

RECURSIVE FilterNotIn(_, _)
\* [w for w in seq if w not in S]
FilterNotIn(seq, S) ==
    IF Len(seq) = 0 THEN <<>>
    ELSE (IF Head(seq) \in S THEN <<>> ELSE <<Head(seq)>>) \o FilterNotIn(Tail(seq), S)

RECURSIVE FilterContained(_, _)
\* [c for c in seq if c in lowered]
FilterContained(seq, lowered) ==
    IF Len(seq) = 0 THEN <<>>
    ELSE (IF Contains(lowered, Head(seq)) THEN <<Head(seq)>> ELSE <<>>)
            \o FilterContained(Tail(seq), lowered)

\* {c.lower() for c in prefs_list if c} | defaults
Vocabulary(prefs_list, defaults) ==
    {Lower(prefs_list[i]) : i \in {j \in 1..Len(prefs_list) : Truthy(prefs_list[j])}} \cup defaults

\* occasion of _extract_intent_heuristic
HeuristicOccasion(lowered) ==
    LET hits == {i \in 1..Len(OCCASION_TOKENS) : Contains(lowered, OCCASION_TOKENS[i])}
    IN IF hits = {} THEN Null ELSE OCCASION_TOKENS[CHOOSE i \in hits : \A j \in hits : i <= j]

HEURISTIC_KEYWORD_CAP == 6

\* _extract_intent_heuristic
ExtractIntentHeuristic(message, preferences) ==
    LET lowered == Lower(message)
    IN [cuisines |-> FilterContained(SortedStrings(Vocabulary(preferences.cuisines, DEFAULT_CUISINES)), lowered),
        price_range |-> HeuristicPrice(message),
        location |-> HeuristicLocation(message),
        dietary_needs |-> FilterContained(SortedStrings(Vocabulary(preferences.dietary_needs, DEFAULT_DIETARY)), lowered),
        ambiance |-> FilterContained(SortedStrings(Vocabulary(preferences.ambiance, DEFAULT_AMBIANCE)), lowered),
        keywords |-> Take(FilterNotIn(FindAllWords(lowered, 1), STOP_WORDS), HEURISTIC_KEYWORD_CAP),
        occasion |-> HeuristicOccasion(lowered)]

\* _load_user_preferences when the user has no preference row
EMPTY_PREFERENCES ==
    [cuisines |-> <<>>, price_range |-> Null, preferred_locations |-> <<>>,
     dietary_needs |-> <<>>, ambiance |-> <<>>, sort_preference |-> "rating"]

\* the intent whose seven keys are all empty
EMPTY_INTENT ==
    [cuisines |-> <<>>, price_range |-> Null, location |-> Null, dietary_needs |-> <<>>,
     ambiance |-> <<>>, keywords |-> <<>>, occasion |-> Null]

(***************************************************************************)
(* Intent normalisation and merge.  An intent is a record of the seven     *)
(* keys; a key missing from a dict reads as its .get default (<<>>, Null). *)
(***************************************************************************)
LIST_CAP == 6
KEYWORD_CAP == 8

RECURSIVE StripLowerNonBlank(_)
\* [str(v).strip().lower() for v in values if str(v).strip()]
StripLowerNonBlank(values) ==
    IF Len(values) = 0 THEN <<>>
    ELSE (IF Strip(Head(values)) # "" THEN <<Lower(Strip(Head(values)))>> ELSE <<>>)
            \o StripLowerNonBlank(Tail(values))

\* location of _normalize_intent: str(location).strip() if location else None
NormalizeLocation(location) == IF Truthy(location) THEN Strip(location) ELSE Null

\* occasion of _normalize_intent: str(occasion).strip().lower() if occasion else None
NormalizeOccasion(occasion) == IF Truthy(occasion) THEN Lower(Strip(occasion)) ELSE Null

\* _normalize_intent
NormalizeIntent(intent) ==
    [cuisines |-> Take(StripLowerNonBlank(intent.cuisines), LIST_CAP),
     price_range |-> IF intent.price_range \in PRICE_SET THEN intent.price_range ELSE Null,
     location |-> NormalizeLocation(intent.location),
     dietary_needs |-> Take(StripLowerNonBlank(intent.dietary_needs), LIST_CAP),
     ambiance |-> Take(StripLowerNonBlank(intent.ambiance), LIST_CAP),
     keywords |-> Take(StripLowerNonBlank(intent.keywords), KEYWORD_CAP),
     occasion |-> NormalizeOccasion(intent.occasion)]

RECURSIVE CleanListFrom(_, _)
\* the loop of _clean_list over the rest of the values, seen being the tokens kept so far
CleanListFrom(values, seen) ==
    IF Len(values) = 0 THEN <<>>
    ELSE LET token == Lower(Strip(Head(values)))
         IN IF token = "" \/ token \in seen
            THEN CleanListFrom(Tail(values), seen)
            ELSE <<token>> \o CleanListFrom(Tail(values), seen \cup {token})

\* _clean_list of _merge_intent_with_message_priority
CleanList(values) == CleanListFrom(values, {})

\* merged[key] for key in (cuisines, dietary_needs, ambiance)
MergeList(llm_values, heuristic_values) ==
    IF Len(CleanList(heuristic_values)) > 0 THEN CleanList(heuristic_values) ELSE CleanList(llm_values)

\* merged["keywords"]
MergeKeywords(llm_keywords, heuristic_keywords) ==
    Take(CleanList(heuristic_keywords) \o CleanList(llm_keywords), KEYWORD_CAP)

\* MergeScalar with the precedence reversed: the LLM value wins when it is set
MergeScalarPreferringLlm(llm_value, heuristic_value) ==
    IF Truthy(llm_value) THEN llm_value ELSE heuristic_value

\* merged[key] for key in (price_range, location, occasion)
MergeScalar(llm_value, heuristic_value) ==
    IF Truthy(heuristic_value) THEN heuristic_value ELSE llm_value

\* _merge_intent_with_message_priority
MergeIntentWithMessagePriority(llm_intent, heuristic_intent) ==
    NormalizeIntent(
        [cuisines |-> MergeList(llm_intent.cuisines, heuristic_intent.cuisines),
         dietary_needs |-> MergeList(llm_intent.dietary_needs, heuristic_intent.dietary_needs),
         ambiance |-> MergeList(llm_intent.ambiance, heuristic_intent.ambiance),
         keywords |-> MergeKeywords(llm_intent.keywords, heuristic_intent.keywords),
         price_range |-> MergeScalar(llm_intent.price_range, heuristic_intent.price_range),
         location |-> MergeScalar(llm_intent.location, heuristic_intent.location),
         occasion |-> MergeScalar(llm_intent.occasion, heuristic_intent.occasion)])

(***************************************************************************)
(* The catalogue.  A restaurant is a record of the columns the assistant   *)
(* reads; the restaurants table is the sequence of its rows in the order   *)
(* a SELECT without ORDER BY delivers them; reviews is the sequence of     *)
(* review rows [restaurant_id, rating].                                    *)
(***************************************************************************)
FETCH_LIMIT == 60

RECURSIVE Like(_, _)
\* the LIKE operator on a value and a pattern: % stands for any run of characters and _
\* for any one character
Like(value, pattern) ==
    IF Len(pattern) = 0 THEN Len(value) = 0
    ELSE IF Char(pattern, 1) = "%"
    THEN \E k \in 0..Len(value) : Like(SubSeq(value, k + 1, Len(value)), SubSeq(pattern, 2, Len(pattern)))
    ELSE IF Len(value) = 0 THEN FALSE
    ELSE /\ Char(pattern, 1) = "_" \/ Char(pattern, 1) = Char(value, 1)
         /\ Like(SubSeq(value, 2, Len(value)), SubSeq(pattern, 2, Len(pattern)))

\* whether the text holds a wildcard of LIKE
HasWildcard(text) == CharIn("%", text) \/ CharIn("_", text)

\* column.ilike(f"%{pattern}%"): a NULL column matches nothing
ILikeContains(column, pattern) ==
    /\ column # Null
    /\ IF HasWildcard(pattern) THEN Like(Lower(column), "%" \o Lower(pattern) \o "%")
       ELSE Contains(Lower(column), Lower(pattern))

\* column.ilike(name): the name is the pattern, its wildcards are not escaped
ILikeEquals(column, name) ==
    /\ column # Null
    /\ IF HasWildcard(name) THEN Like(Lower(column), Lower(name))
       ELSE Lower(column) = Lower(name)

RECURSIVE QuoteAll(_)
QuoteAll(values) ==
    IF Len(values) = 0 THEN <<>> ELSE <<"\"" \o Head(values) \o "\"">> \o QuoteAll(Tail(values))

\* cast(Restaurant.amenities, String): the JSON text of the list, NULL when unset
AmenitiesText(restaurant) ==
    IF restaurant.amenities = Null THEN Null
    ELSE "[" \o JoinStrings(QuoteAll(restaurant.amenities), ", ") \o "]"

RECURSIVE SumRatings(_, _)
SumRatings(reviews, id) ==
    IF Len(reviews) = 0 THEN 0
    ELSE (IF Head(reviews).restaurant_id = id THEN Head(reviews).rating ELSE 0)
            + SumRatings(Tail(reviews), id)

CountReviews(reviews, id) == Cardinality({i \in 1..Len(reviews) : reviews[i].restaurant_id = id})

\* one entry of _fetch_ratings, read with .get(id, (0.0, 0)): <<average in hundredths of
\* a star, count>>.  round(avg, 2) is the nearest hundredth (no count below 8 gives a tie)
RatingOf(reviews, id) ==
    LET cnt == CountReviews(reviews, id)
        total == SumRatings(reviews, id)
    IN IF cnt = 0 THEN <<0, 0>> ELSE <<(200 * total + cnt) \div (2 * cnt), cnt>>

\* the WHERE clause with the keyword filter applied whatever the other filters are
MatchesFiltersKeywordsAlways(restaurant, intent) ==
    LET cuisines == intent.cuisines
        location == intent.location
        keywords == intent.keywords
    IN /\ Len(cuisines) > 0 =>
            \E i \in 1..Len(cuisines) : ILikeContains(restaurant.cuisine_type, cuisines[i])
       /\ Truthy(location) => ILikeContains(restaurant.city, location)
       /\ Len(keywords) > 0 =>
            \E i \in 1..Len(Take(keywords, 4)) :
                \/ ILikeContains(restaurant.name, keywords[i])
                \/ ILikeContains(restaurant.cuisine_type, keywords[i])
                \/ ILikeContains(restaurant.description, keywords[i])
                \/ ILikeContains(AmenitiesText(restaurant), keywords[i])

\* the WHERE clause _search_and_rank_restaurants builds from the intent
MatchesFilters(restaurant, intent) ==
    LET cuisines == intent.cuisines
        location == intent.location
        keywords == intent.keywords
    IN /\ Len(cuisines) > 0 =>
            \E i \in 1..Len(cuisines) : ILikeContains(restaurant.cuisine_type, cuisines[i])
       /\ Truthy(location) => ILikeContains(restaurant.city, location)
       /\ (Len(keywords) > 0 /\ ~(Len(cuisines) > 0 \/ Truthy(location))) =>
            \E i \in 1..Len(Take(keywords, 4)) :
                \/ ILikeContains(restaurant.name, keywords[i])
                \/ ILikeContains(restaurant.cuisine_type, keywords[i])
                \/ ILikeContains(restaurant.description, keywords[i])
                \/ ILikeContains(AmenitiesText(restaurant), keywords[i])

RECURSIVE SelectMatching(_, _)
\* the rows of the restaurants table that satisfy the WHERE clause, in table order
SelectMatching(rows, intent) ==
    IF Len(rows) = 0 THEN <<>>
    ELSE (IF MatchesFilters(Head(rows), intent) THEN <<Head(rows)>> ELSE <<>>)
            \o SelectMatching(Tail(rows), intent)

\* the fetch that falls back to the unfiltered catalogue whenever the filters match nothing
FetchCandidatesFallingBack(restaurants, intent) ==
    LET filtered == Take(SelectMatching(restaurants, intent), FETCH_LIMIT)
    IN IF Len(filtered) = 0 THEN Take(restaurants, FETCH_LIMIT) ELSE filtered

\* the restaurants _search_and_rank_restaurants scores: the filtered query, nothing when
\* a cuisine was asked for and no row matched, else the unfiltered catalogue
FetchCandidates(restaurants, intent) ==
    LET filtered == Take(SelectMatching(restaurants, intent), FETCH_LIMIT)
    IN IF Len(filtered) = 0 /\ Len(intent.cuisines) > 0 THEN <<>>
       ELSE IF Len(filtered) = 0 THEN Take(restaurants, FETCH_LIMIT)
       ELSE filtered

(***************************************************************************)
(* Ranker.  A bonus is a record [points, reasons]: the amount added to     *)
(* the score, in thousandths, and the reasons appended with it.            *)
(***************************************************************************)
NoBonus == [points |-> 0, reasons |-> <<>>]

OrEmpty(x) == IF x = Null THEN "" ELSE x

\* f"{value:.1f}" of a value given in hundredths: the nearest tenth, a tie (exact in
\* binary only at .25 and .75) going to the even tenth
FormatOneDecimal(hundredths) ==
    LET t == hundredths \div 10
        r == hundredths % 10
        tenths == IF r > 5 \/ (r = 5 /\ t % 2 = 1) THEN t + 1 ELSE t
    IN ToString(tenths \div 10) \o "." \o ToString(tenths % 10)

\* text_blob of _score_restaurant
TextBlob(restaurant) ==
    Lower(JoinStrings(<<OrEmpty(restaurant.name), OrEmpty(restaurant.cuisine_type),
                        OrEmpty(restaurant.description),
                        JoinStrings(IF restaurant.amenities = Null THEN <<>> ELSE restaurant.amenities, " ")>>,
                      " "))

RECURSIVE LowerAll(_)
LowerAll(values) == IF Len(values) = 0 THEN <<>> ELSE <<Lower(Head(values))>> \o LowerAll(Tail(values))

\* any(c in text for c in values)
AnyContained(values, text) == \E i \in 1..Len(values) : Contains(text, values[i])

\* score = average_rating * 0.9 + min(review_count, 40) * 0.05
REVIEW_CAP == 40
\* the base score with every review counted
BaseScoreUncapped(average_rating, review_count) == average_rating * 9 + review_count * 50

BaseScore(average_rating, review_count) == average_rating * 9 + Min(review_count, REVIEW_CAP) * 50

\* the cuisine branch written as two independent ifs: both bonuses can apply
CuisineBonusStacking(restaurant, intent, preferences) ==
    LET wanted_cuisines == LowerAll(intent.cuisines)
        pref_cuisines == LowerAll(preferences.cuisines)
        restaurant_cuisine == Lower(OrEmpty(restaurant.cuisine_type))
        wanted == Len(wanted_cuisines) > 0 /\ AnyContained(wanted_cuisines, restaurant_cuisine)
        saved == Len(pref_cuisines) > 0 /\ AnyContained(pref_cuisines, restaurant_cuisine)
    IN [points |-> (IF wanted THEN 4000 ELSE 0) + (IF saved THEN 2000 ELSE 0),
        reasons |-> (IF wanted THEN <<"Matches your cuisine request">> ELSE <<>>)
                    \o (IF saved THEN <<"Matches your saved cuisine preferences">> ELSE <<>>)]

\* the cuisine branch: +4 for a requested cuisine, elif +2 for a saved one
CuisineBonus(restaurant, intent, preferences) ==
    LET wanted_cuisines == LowerAll(intent.cuisines)
        pref_cuisines == LowerAll(preferences.cuisines)
        restaurant_cuisine == Lower(OrEmpty(restaurant.cuisine_type))
    IN IF Len(wanted_cuisines) > 0 /\ AnyContained(wanted_cuisines, restaurant_cuisine)
       THEN [points |-> 4000, reasons |-> <<"Matches your cuisine request">>]
       ELSE IF Len(pref_cuisines) > 0 /\ AnyContained(pref_cuisines, restaurant_cuisine)
       THEN [points |-> 2000, reasons |-> <<"Matches your saved cuisine preferences">>]
       ELSE NoBonus

\* the price branch: +2.5 for the requested tier, elif +1.5 for the saved one
PriceBonus(restaurant, intent, preferences) ==
    LET wanted_price == intent.price_range
        pref_price == preferences.price_range
    IN IF Truthy(wanted_price) /\ restaurant.pricing_tier = wanted_price
       THEN [points |-> 2500, reasons |-> <<"Within your requested budget (" \o wanted_price \o ")">>]
       ELSE IF Truthy(pref_price) /\ restaurant.pricing_tier = pref_price
       THEN [points |-> 1500, reasons |-> <<"Matches your usual budget (" \o pref_price \o ")">>]
       ELSE NoBonus

\* the location branch: +2 for the requested location, else +1.2 for the first saved
\* location found in the city
LocationBonus(restaurant, intent, preferences) ==
    LET location == intent.location
        city == Lower(OrEmpty(restaurant.city))
        prefs == preferences.preferred_locations
    IN IF Truthy(location) /\ Contains(city, Lower(location))
       THEN [points |-> 2000, reasons |-> <<"In your requested area (" \o restaurant.city \o ")">>]
       ELSE IF \E i \in 1..Len(prefs) : Truthy(prefs[i]) /\ Contains(city, Lower(prefs[i]))
       THEN [points |-> 1200, reasons |-> <<"In your preferred location (" \o OrEmpty(restaurant.city) \o ")">>]
       ELSE NoBonus

\* the first token of tokens that is non-empty and in text, Null when there is none
FirstTokenIn(tokens, text) ==
    LET hits == {i \in 1..Len(tokens) : tokens[i] # "" /\ Contains(text, tokens[i])}
    IN IF hits = {} THEN Null ELSE tokens[CHOOSE i \in hits : \A j \in hits : i <= j]

\* the dietary loop: +1 for the first token of wanted + saved found in the text blob
DietaryBonus(restaurant, intent, preferences) ==
    LET token == FirstTokenIn(LowerAll(intent.dietary_needs) \o LowerAll(preferences.dietary_needs),
                              TextBlob(restaurant))
    IN IF token = Null THEN NoBonus
       ELSE [points |-> 1000, reasons |-> <<"Supports " \o token \o " options">>]

\* the ambiance loop: +0.8 for the first token of wanted + saved found in the text blob
AmbianceBonus(restaurant, intent, preferences) ==
    LET token == FirstTokenIn(LowerAll(intent.ambiance) \o LowerAll(preferences.ambiance),
                              TextBlob(restaurant))
    IN IF token = Null THEN NoBonus
       ELSE [points |-> 800, reasons |-> <<"Fits " \o token \o " ambiance">>]

\* the keyword loop: +0.6 for each of the first 4 keywords found in the text blob
KeywordBonus(restaurant, intent) ==
    LET kws == Take(intent.keywords, 4)
        hits == {i \in 1..Len(kws) : kws[i] # "" /\ Contains(TextBlob(restaurant), Lower(kws[i]))}
    IN [points |-> 600 * Cardinality(hits), reasons |-> <<>>]

\* the occasion test: +0.6 when the occasion is in the text blob
OccasionBonus(restaurant, intent) ==
    IF Truthy(intent.occasion) /\ Contains(TextBlob(restaurant), intent.occasion)
    THEN [points |-> 600, reasons |-> <<>>]
    ELSE NoBonus

\* the trailing reason, appended when average_rating > 0
RatedReason(average_rating, review_count) ==
    IF average_rating > 0
    THEN <<"Rated " \o FormatOneDecimal(average_rating) \o "* from " \o ToString(review_count) \o " review(s)">>
    ELSE <<>>

\* _score_restaurant: [score, reasons]
ScoreRestaurant(restaurant, average_rating, review_count, intent, preferences) ==
    LET c == CuisineBonus(restaurant, intent, preferences)
        p == PriceBonus(restaurant, intent, preferences)
        l == LocationBonus(restaurant, intent, preferences)
        d == DietaryBonus(restaurant, intent, preferences)
        a == AmbianceBonus(restaurant, intent, preferences)
        k == KeywordBonus(restaurant, intent)
        o == OccasionBonus(restaurant, intent)
    IN [score |-> BaseScore(average_rating, review_count) + c.points + p.points + l.points
                    + d.points + a.points + k.points + o.points,
        reasons |-> c.reasons \o p.reasons \o l.reasons \o d.reasons \o a.reasons
                    \o RatedReason(average_rating, review_count)]

\* one entry of ranked
RankedRow(restaurant, reviews, intent, preferences) ==
    LET rating == RatingOf(reviews, restaurant.id)
        scored == ScoreRestaurant(restaurant, rating[1], rating[2], intent, preferences)
    IN [restaurant |-> restaurant, score |-> scored.score, average_rating |-> rating[1],
        review_count |-> rating[2], reasons |-> scored.reasons]

\* the sort key of a row compared as Python compares tuples
KeyLess(a, b) ==
    \/ a.score < b.score
    \/ a.score = b.score /\ a.average_rating < b.average_rating
    \/ a.score = b.score /\ a.average_rating = b.average_rating /\ a.review_count < b.review_count

KeyEqual(a, b) ==
    a.score = b.score /\ a.average_rating = b.average_rating /\ a.review_count = b.review_count

\* row placed in a list sorted in descending key order, before the first entry whose key
\* is not greater than its own
InsertDescending(row, sorted) ==
    LET later == {i \in 1..Len(sorted) : ~KeyLess(row, sorted[i])}
        at == IF later = {} THEN Len(sorted) + 1 ELSE CHOOSE i \in later : \A j \in later : i <= j
    IN SubSeq(sorted, 1, at - 1) \o <<row>> \o SubSeq(sorted, at, Len(sorted))

\* the ranker without its sort
SortDescendingOmitted(rows) == rows

RECURSIVE SortDescending(_)
\* ranked.sort(key=(score, average_rating, review_count), reverse=True): list.sort is
\* stable, and with reverse=True rows of equal key keep the order they were appended in
SortDescending(rows) ==
    IF Len(rows) = 0 THEN <<>> ELSE InsertDescending(Head(rows), SortDescending(Tail(rows)))

RECURSIVE ScoreAll(_, _, _, _)
\* the scoring loop over the fetched restaurants
ScoreAll(candidates, reviews, intent, preferences) ==
    IF Len(candidates) = 0 THEN <<>>
    ELSE <<RankedRow(Head(candidates), reviews, intent, preferences)>>
            \o ScoreAll(Tail(candidates), reviews, intent, preferences)

\* _search_and_rank_restaurants
SearchAndRankRestaurants(restaurants, reviews, intent, preferences) ==
    SortDescending(ScoreAll(FetchCandidates(restaurants, intent), reviews, intent, preferences))

(***************************************************************************)
(* Follow-up replies: templates over the restaurant's own columns.         *)
(***************************************************************************)
RECURSIVE TitleFrom(_, _)
\* str.title() from index p: a letter is upper-cased after a character that is no
\* letter, and lower-cased after a letter
TitleFrom(s, p) ==
    IF p > Len(s) THEN ""
    ELSE (IF p > 1 /\ IsAlpha(Char(s, p - 1)) THEN LowerChar(Char(s, p)) ELSE UpperChar(Char(s, p)))
            \o TitleFrom(s, p + 1)

Title(s) == TitleFrom(s, 1)

TRUNCATE_LEN == 220

\* _truncate
Truncate(value, max_len) ==
    IF Len(value) <= max_len THEN value
    ELSE RStripChars(Slice(value, 1, max_len - 3), " \n\t") \o "..."

RECURSIVE NonBlankStripped(_)
\* [part.strip() for part in parts if part and str(part).strip()]
NonBlankStripped(parts) ==
    IF Len(parts) = 0 THEN <<>>
    ELSE (IF Head(parts) # Null /\ Strip(Head(parts)) # "" THEN <<Strip(Head(parts))>> ELSE <<>>)
            \o NonBlankStripped(Tail(parts))

\* _build_location_followup_reply
BuildLocationFollowupReply(restaurant) ==
    LET location_parts == NonBlankStripped(<<restaurant.street, restaurant.city, restaurant.state,
                                             restaurant.zip_code>>)
    IN IF Len(location_parts) > 0
       THEN restaurant.name \o " is located in " \o JoinStrings(location_parts, ", ") \o "."
       ELSE IF Truthy(restaurant.city)
       THEN restaurant.name \o " is in " \o restaurant.city \o "."
       ELSE "I couldn't find a full location for " \o restaurant.name
                \o ", but you can open its detail card."

RECURSIVE HoursPairs(_)
\* the "Day: hours" strings of the hours mapping, given as its <<day, hours>> items
HoursPairs(items) ==
    IF Len(items) = 0 THEN <<>>
    ELSE (IF Head(items)[1] # "" /\ Strip(Head(items)[2]) # ""
          THEN <<Title(Head(items)[1]) \o ": " \o Head(items)[2]>> ELSE <<>>)
            \o HoursPairs(Tail(items))

\* whether _build_hours_followup_reply answers from the hours column
HasStructuredHours(restaurant) ==
    restaurant.hours_json # Null /\ Len(HoursPairs(restaurant.hours_json)) > 0

\* _build_hours_followup_reply, tavily_hours being what _fetch_tavily_hours_hint
\* returned (Null for None); the hint is fetched only without structured hours
BuildHoursFollowupReply(restaurant, tavily_hours) ==
    IF HasStructuredHours(restaurant)
    THEN restaurant.name \o " hours: " \o JoinStrings(Take(HoursPairs(restaurant.hours_json), 7), " | ")
    ELSE IF Truthy(tavily_hours)
    THEN "I don't have structured hours in our DB, but live context suggests: " \o tavily_hours
    ELSE "I couldn't find reliable open hours for " \o restaurant.name
            \o " in our local data. Please check the official listing before visiting."

\* _build_contact_followup_reply
BuildContactFollowupReply(restaurant) ==
    LET contact_bits == (IF Truthy(restaurant.phone) THEN <<"phone: " \o restaurant.phone>> ELSE <<>>)
                        \o (IF Truthy(restaurant.email) THEN <<"email: " \o restaurant.email>> ELSE <<>>)
    IN IF Len(contact_bits) > 0
       THEN restaurant.name \o " contact info: " \o JoinStrings(contact_bits, " | ")
       ELSE "I couldn't find direct contact details for " \o restaurant.name \o " in our local data."

\* _build_rating_followup_reply
BuildRatingFollowupReply(restaurant, average_rating, review_count) ==
    IF review_count > 0
    THEN restaurant.name \o " currently averages " \o FormatOneDecimal(average_rating) \o "* from "
            \o ToString(review_count) \o " review(s)."
    ELSE restaurant.name \o " does not have ratings yet."

\* _build_price_followup_reply
BuildPriceFollowupReply(restaurant) ==
    IF Truthy(restaurant.pricing_tier)
    THEN restaurant.name \o " is in the " \o restaurant.pricing_tier \o " price tier."
    ELSE "I don't have pricing tier data for " \o restaurant.name \o " yet."

\* _build_cuisine_followup_reply
BuildCuisineFollowupReply(restaurant) ==
    IF Truthy(restaurant.cuisine_type)
    THEN restaurant.name \o " serves " \o restaurant.cuisine_type \o " cuisine."
    ELSE "I don't have a cuisine label recorded for " \o restaurant.name \o "."

\* _build_amenities_followup_reply
BuildAmenitiesFollowupReply(restaurant) ==
    LET amenities == IF restaurant.amenities = Null THEN <<>>
                     ELSE NonBlankStripped(restaurant.amenities)
        text_bits == (IF Truthy(restaurant.description) THEN <<restaurant.description>> ELSE <<>>)
                     \o (IF Truthy(restaurant.cuisine_type) THEN <<restaurant.cuisine_type>> ELSE <<>>)
    IN IF Len(amenities) > 0
       THEN restaurant.name \o " amenities: " \o JoinStrings(Take(amenities, 8), ", ")
       ELSE IF Len(text_bits) > 0
       THEN "I don't have structured amenities for " \o restaurant.name
                \o ", but here's what I know: " \o JoinStrings(text_bits, " ")
       ELSE "I don't have amenities data for " \o restaurant.name \o " yet."

\* _build_summary_followup_reply
BuildSummaryFollowupReply(restaurant) ==
    LET location == IF Truthy(restaurant.city) THEN restaurant.city ELSE "unknown location"
        cuisine == IF Truthy(restaurant.cuisine_type) THEN restaurant.cuisine_type ELSE "unspecified cuisine"
        price == IF Truthy(restaurant.pricing_tier) THEN restaurant.pricing_tier ELSE "unknown price tier"
    IN restaurant.name \o ": " \o cuisine \o ", " \o price \o ", in " \o location
        \o ". You can ask me for its location, open hours, contact, price, or amenities."

\* _build_attribute_followup_reply: <<reply, reason>>
BuildAttributeFollowupReply(restaurant, followup_type, average_rating, review_count, tavily_hours) ==
    IF followup_type = "hours"
    THEN <<BuildHoursFollowupReply(restaurant, tavily_hours), "Open-hours details for your selected restaurant">>
    ELSE IF followup_type = "location"
    THEN <<BuildLocationFollowupReply(restaurant), "Location details for your selected restaurant">>
    ELSE IF followup_type = "contact"
    THEN <<BuildContactFollowupReply(restaurant), "Contact details for your selected restaurant">>
    ELSE IF followup_type = "rating"
    THEN <<BuildRatingFollowupReply(restaurant, average_rating, review_count),
           "Rating details for your selected restaurant">>
    ELSE IF followup_type = "price"
    THEN <<BuildPriceFollowupReply(restaurant), "Pricing details for your selected restaurant">>
    ELSE IF followup_type = "amenities"
    THEN <<BuildAmenitiesFollowupReply(restaurant), "Amenities details for your selected restaurant">>
    ELSE IF followup_type = "cuisine"
    THEN <<BuildCuisineFollowupReply(restaurant), "Cuisine details for your selected restaurant">>
    ELSE <<BuildSummaryFollowupReply(restaurant), "Details for your selected restaurant">>

\* a SuggestedRestaurant
Suggestion(restaurant, reason, average_rating) ==
    [id |-> restaurant.id, name |-> restaurant.name, reason |-> reason,
     average_rating |-> average_rating, pricing_tier |-> restaurant.pricing_tier,
     cuisine_type |-> restaurant.cuisine_type, city |-> restaurant.city]

RECURSIVE SelectNamed(_, _)
\* the rows whose name ILIKEs one of names, in table order
SelectNamed(rows, names) ==
    IF Len(rows) = 0 THEN <<>>
    ELSE (IF \E i \in 1..Len(names) : ILikeEquals(Head(rows).name, names[i])
          THEN <<Head(rows)>> ELSE <<>>) \o SelectNamed(Tail(rows), names)

\* scalar_one_or_none() returning None
NoRestaurant ==
    [id |-> 0, name |-> Null, cuisine_type |-> Null, description |-> Null, street |-> Null,
     city |-> Null, state |-> Null, zip_code |-> Null, phone |-> Null, email |-> Null,
     hours_json |-> Null, pricing_tier |-> Null, amenities |-> Null]

\* the restaurant the lookup with .limit(1) returns for a name, NoRestaurant for none
FindRestaurantByName(restaurants, name) ==
    LET found == SelectNamed(restaurants, <<Strip(name)>>)
    IN IF Len(found) = 0 THEN NoRestaurant ELSE found[1]

RECURSIVE OrderedByName(_, _)
\* the loop over ranked_names[:3] of _build_followup_suggestions: by_name keeps, for a
\* lower-cased name, the last of the fetched rows that has it
OrderedByName(names, fetched) ==
    IF Len(names) = 0 THEN <<>>
    ELSE LET hits == {i \in 1..Len(fetched) : Lower(fetched[i].name) = Lower(Head(names))}
         IN (IF hits = {} THEN <<>> ELSE <<fetched[CHOOSE i \in hits : \A j \in hits : j <= i]>>)
                \o OrderedByName(Tail(names), fetched)

RECURSIVE SuggestAll(_, _)
SuggestAll(rows, reviews) ==
    IF Len(rows) = 0 THEN <<>>
    ELSE <<Suggestion(Head(rows), "From your recent recommendation list",
                      RatingOf(reviews, Head(rows).id)[1])>> \o SuggestAll(Tail(rows), reviews)

\* _build_followup_suggestions
BuildFollowupSuggestions(restaurants, reviews, ranked_names) ==
    LET names == Take(ranked_names, 3)
        fetched == Take(SelectNamed(restaurants, names), 10)
        ordered == OrderedByName(names, fetched)
    IN IF Len(ranked_names) = 0 \/ Len(fetched) = 0 THEN <<>>
       ELSE SuggestAll(IF Len(ordered) = 0 THEN Take(fetched, 3) ELSE ordered, reviews)

(***************************************************************************)
(* Follow-up resolver: the context and the decision.  A conversation       *)
(* history is a sequence of turns [role, content], most recent last.       *)
(***************************************************************************)
\* next((turn.content for turn in reversed(history) if turn.role == role), "")
LatestContent(history, role) ==
    LET turns == {i \in 1..Len(history) : history[i].role = role}
    IN IF turns = {} THEN "" ELSE history[CHOOSE i \in turns : \A j \in turns : j <= i].content

\* the sort order of the (idx, -len(name), name) tuples of _extract_mentioned_restaurant_names
MatchLess(a, b) ==
    \/ a[1] < b[1]
    \/ a[1] = b[1] /\ a[2] < b[2]
    \/ a[1] = b[1] /\ a[2] = b[2] /\ StrLess(a[3], b[3])

RECURSIVE SortMatches(_)
\* matches.sort()
SortMatches(matches) ==
    IF Len(matches) = 0 THEN <<>>
    ELSE LET least == CHOOSE i \in 1..Len(matches) :
                        \A j \in 1..Len(matches) : ~MatchLess(matches[j], matches[i])
         IN <<matches[least]>>
                \o SortMatches(SubSeq(matches, 1, least - 1) \o SubSeq(matches, least + 1, Len(matches)))

RECURSIVE NameMatches(_, _)
\* the matches list: one tuple for every name of the table found in the lower-cased text
NameMatches(rows, lowered) ==
    IF Len(rows) = 0 THEN <<>>
    ELSE LET name == Strip(OrEmpty(Head(rows).name))
             idx == Find(lowered, Lower(name))
         IN (IF name # "" /\ idx > 0 THEN << <<idx, 0 - Len(name), name>> >> ELSE <<>>)
                \o NameMatches(Tail(rows), lowered)

RECURSIVE DedupeNames(_, _, _)
\* the dedupe loop over the sorted matches, seen holding the lower-cased names kept,
\* room the number of names that may still be added
DedupeNames(matches, seen, room) ==
    IF Len(matches) = 0 \/ room = 0 THEN <<>>
    ELSE LET name == Head(matches)[3]
         IN IF Lower(name) \in seen THEN DedupeNames(Tail(matches), seen, room)
            ELSE <<name>> \o DedupeNames(Tail(matches), seen \cup {Lower(name)}, room - 1)

MAX_MENTIONED_NAMES == 5
NAME_SCAN_LIMIT == 500

\* _extract_mentioned_restaurant_names
ExtractMentionedRestaurantNames(restaurants, text) ==
    IF Strip(Lower(text)) = "" THEN <<>>
    ELSE DedupeNames(SortMatches(NameMatches(Take(restaurants, NAME_SCAN_LIMIT), Lower(text))), {},
                     MAX_MENTIONED_NAMES)

\* the list _extract_latest_ranked_names returns for a non-empty assistant message whose
\* numbered list is ranked
LatestRankedNamesOf(restaurants, assistant_message, ranked) ==
    IF Len(ranked) > 0 THEN ranked
    ELSE ExtractMentionedRestaurantNames(restaurants, assistant_message)

\* _extract_latest_ranked_names for the latest assistant message
LatestRankedNamesIn(restaurants, assistant_message) ==
    IF assistant_message = "" THEN <<>>
    ELSE LatestRankedNamesOf(restaurants, assistant_message, ExtractRankedNames(assistant_message))

\* _extract_latest_ranked_names
ExtractLatestRankedNames(restaurants, history) ==
    LatestRankedNamesIn(restaurants, LatestContent(history, "assistant"))

\* has_structured_filters of _infer_context_names_from_previous_user_query
HasStructuredFilters(i) ==
    \/ Len(i.cuisines) > 0
    \/ Truthy(i.location)
    \/ Truthy(i.price_range)
    \/ Len(i.dietary_needs) > 0
    \/ Len(i.ambiance) > 0

\* whether _infer_context_names_from_previous_user_query, for the previous user message
\* and the intent its heuristic pass extracts, runs _search_and_rank_restaurants
InferenceSearchesFor(previous_user_message, inferred_intent) ==
    Strip(previous_user_message) # "" /\ HasStructuredFilters(inferred_intent)

\* whether _infer_context_names_from_previous_user_query runs _search_and_rank_restaurants
InferenceSearchesIn(previous_user_message, preferences) ==
    InferenceSearchesFor(previous_user_message,
                         ExtractIntentHeuristic(previous_user_message, preferences))

InferenceSearches(history, preferences) ==
    InferenceSearchesIn(LatestContent(history, "user"), preferences)

RECURSIVE RowNames(_)
\* the names loop of _infer_context_names_from_previous_user_query
RowNames(rows) ==
    IF Len(rows) = 0 THEN <<>>
    ELSE (IF Truthy(Head(rows).restaurant.name) THEN <<Head(rows).restaurant.name>> ELSE <<>>)
            \o RowNames(Tail(rows))

\* _infer_context_names_from_previous_user_query for the previous user message and the
\* intent its heuristic pass extracts
InferContextNamesFor(restaurants, reviews, previous_user_message, inferred_intent, preferences) ==
    IF ~InferenceSearchesFor(previous_user_message, inferred_intent) THEN <<>>
    ELSE RowNames(Take(SearchAndRankRestaurants(restaurants, reviews, inferred_intent, preferences), 3))

InferContextNamesIn(restaurants, reviews, previous_user_message, preferences) ==
    InferContextNamesFor(restaurants, reviews, previous_user_message,
                         ExtractIntentHeuristic(previous_user_message, preferences), preferences)

\* _infer_context_names_from_previous_user_query
InferContextNamesFromPreviousUserQuery(restaurants, reviews, history, preferences) ==
    InferContextNamesIn(restaurants, reviews, LatestContent(history, "user"), preferences)

\* lines 183-189: the latest ranked names, or else the inferred ones
ContextNamesOr(latest, restaurants, reviews, history, preferences) ==
    IF Len(latest) > 0 THEN latest
    ELSE InferContextNamesFromPreviousUserQuery(restaurants, reviews, history, preferences)

\* ranked_names of _handle_attribute_followup
ContextNames(restaurants, reviews, history, preferences) ==
    ContextNamesOr(ExtractLatestRankedNames(restaurants, history), restaurants, reviews, history,
                   preferences)

\* the default of lines 209-210 taken however many names the context holds
ReferencedNameOrFirst(referenced_name, followup_type, ranked_names) ==
    IF ~Truthy(referenced_name) /\ followup_type # Null /\ Len(ranked_names) >= 1
    THEN ranked_names[1]
    ELSE referenced_name

\* lines 209-210: the name the message refers to, else the only name of the context
\* when a topic was detected
ReferencedNameOr(referenced_name, followup_type, ranked_names) ==
    IF ~Truthy(referenced_name) /\ followup_type # Null /\ Len(ranked_names) = 1
    THEN ranked_names[1]
    ELSE referenced_name

\* referenced_name of _handle_attribute_followup for a non-empty context
ResolveReferencedName(message, followup_type, ranked_names) ==
    ReferencedNameOr(ExtractReferencedRestaurantName(message, ranked_names), followup_type,
                     ranked_names)

\* the restaurant of lines 216-224, NoRestaurant where no name was resolved
LookupReferenced(restaurants, referenced_name) ==
    IF Truthy(referenced_name) THEN FindRestaurantByName(restaurants, referenced_name)
    ELSE NoRestaurant

\* the routes with lines 195-203 left out: a topic without a context goes on to the search
FollowupRouteWithoutTargetCheck(new_search, followup_type, ranked_names, has_hint, referenced_name, restaurant) ==
    IF new_search THEN "FRESH_SEARCH"
    ELSE IF Len(ranked_names) = 0 THEN "FRESH_SEARCH"
    ELSE IF followup_type = Null /\ ~has_hint THEN "FRESH_SEARCH"
    ELSE IF ~Truthy(referenced_name) THEN "FOLLOWUP_CLARIFY"
    ELSE IF restaurant = NoRestaurant THEN "FOLLOWUP_CLARIFY"
    ELSE "FOLLOWUP_ANSWER"

\* the returns of _handle_attribute_followup up to the restaurant lookup (lines 191-229):
\* FRESH_SEARCH where it returns None, FOLLOWUP_CLARIFY where it returns a clarification,
\* FOLLOWUP_ANSWER where it goes on to answer about the restaurant found
FollowupRoute(new_search, followup_type, ranked_names, has_hint, referenced_name, restaurant) ==
    IF new_search THEN "FRESH_SEARCH"
    ELSE IF followup_type # Null /\ Len(ranked_names) = 0 THEN "FOLLOWUP_CLARIFY"
    ELSE IF Len(ranked_names) = 0 THEN "FRESH_SEARCH"
    ELSE IF followup_type = Null /\ ~has_hint THEN "FRESH_SEARCH"
    ELSE IF ~Truthy(referenced_name) THEN "FOLLOWUP_CLARIFY"
    ELSE IF restaurant = NoRestaurant THEN "FOLLOWUP_CLARIFY"
    ELSE "FOLLOWUP_ANSWER"

\* the locals of _handle_attribute_followup, given its route
DecisionRecord(route, followup_type, ranked_names, referenced_name, restaurant) ==
    [route |-> route, followup_type |-> followup_type, ranked_names |-> ranked_names,
     referenced_name |-> IF route = "FRESH_SEARCH" THEN Null ELSE referenced_name,
     restaurant |-> IF route = "FOLLOWUP_ANSWER" THEN restaurant ELSE NoRestaurant]

DecisionAbout(message, followup_type, ranked_names, referenced_name, restaurant) ==
    DecisionRecord(FollowupRoute(LooksLikeNewSearchRequest(message), followup_type, ranked_names,
                                 HasReferenceHint(message, ranked_names), referenced_name,
                                 restaurant),
                   followup_type, ranked_names, referenced_name, restaurant)

DecisionReferring(restaurants, message, followup_type, ranked_names, referenced_name) ==
    DecisionAbout(message, followup_type, ranked_names, referenced_name,
                  LookupReferenced(restaurants, referenced_name))

DecisionIn(restaurants, message, followup_type, ranked_names) ==
    DecisionReferring(restaurants, message, followup_type, ranked_names,
                      IF Len(ranked_names) = 0 THEN Null
                      ELSE ResolveReferencedName(message, followup_type, ranked_names))

\* the decisions of _handle_attribute_followup up to the restaurant lookup (lines
\* 182-229)
FollowupDecision(restaurants, reviews, message, history, preferences) ==
    DecisionIn(restaurants, message, DetectFollowupType(message),
               ContextNames(restaurants, reviews, history, preferences))

(***************************************************************************)
(* Fresh search: suggestions and the fallback reply.                       *)
(***************************************************************************)
\* tavily_context.get(id, []): the context is a sequence of [id, snippets]
SnippetsFor(tavily_context, id) ==
    LET hits == {i \in 1..Len(tavily_context) : tavily_context[i].id = id}
    IN IF hits = {} THEN <<>> ELSE tavily_context[CHOOSE i \in hits : TRUE].snippets

\* _build_suggestion
BuildSuggestion(item, tavily_snippets) ==
    LET reasons == Take(item.reasons, 2)
        reason == IF Len(reasons) > 0 THEN JoinStrings(reasons, "; ")
                  ELSE "Relevant to your query and profile"
    IN Suggestion(item.restaurant,
                  IF Len(tavily_snippets) > 0 THEN reason \o "; Live context checked via Tavily" ELSE reason,
                  item.average_rating)

RECURSIVE BuildSuggestions(_, _)
\* the suggestions of generate_chat_response, one for every entry of top_ranked
BuildSuggestions(top_ranked, tavily_context) ==
    IF Len(top_ranked) = 0 THEN <<>>
    ELSE <<BuildSuggestion(Head(top_ranked), SnippetsFor(tavily_context, Head(top_ranked).restaurant.id))>>
            \o BuildSuggestions(Tail(top_ranked), tavily_context)

NO_MATCH_REPLY ==
    "I couldn't find a strong match yet. Try adding cuisine, budget ($-$$$$), or location so I can narrow recommendations."

\* one numbered line of _build_fallback_reply
FallbackLine(index, suggestion) ==
    LET meta == (IF suggestion.average_rating # 0
                 THEN <<FormatOneDecimal(suggestion.average_rating) \o "*">> ELSE <<>>)
                \o (IF Truthy(suggestion.pricing_tier) THEN <<suggestion.pricing_tier>> ELSE <<>>)
        suffix == IF Len(meta) > 0 THEN " (" \o JoinStrings(meta, ", ") \o ")" ELSE ""
    IN ToString(index) \o ". " \o suggestion.name \o suffix \o " - " \o suggestion.reason

\* _build_fallback_reply
BuildFallbackReply(suggestions) ==
    IF Len(suggestions) = 0 THEN NO_MATCH_REPLY
    ELSE JoinStrings(<<"Here are top matches based on your preferences and query:">>
                        \o [i \in 1..Len(Take(suggestions, 3)) |-> FallbackLine(i, suggestions[i])],
                     "\n")

(***************************************************************************)
(* The optional providers.  What a provider does when it is called is the  *)
(* environment's choice, made at the call.                                 *)
(***************************************************************************)
\* _build_llm_client: "none" for None (no key, or the import fails), "raises" when the
\* client's constructor raises (it is called outside any try), "client" otherwise
LlmClientOutcomes(configured) == IF configured THEN {"none", "raises", "client"} ELSE {"none"}

\* the JSON objects the model lets the language model answer the intent prompt with
LLM_PAYLOADS ==
    {[cuisines |-> <<" Italian ">>, price_range |-> "$$", location |-> " Santa Clara ",
      dietary_needs |-> <<>>, ambiance |-> <<"Romantic", "romantic">>,
      keywords |-> <<"Dinner", "pasta">>, occasion |-> "   "],
     [cuisines |-> <<"mexican">>, price_range |-> "cheap", location |-> Null,
      dietary_needs |-> <<"vegan">>, ambiance |-> <<>>, keywords |-> <<>>, occasion |-> "Lunch"]}

\* client.invoke for the intent prompt: it raises, or answers text that holds no JSON
\* object, or answers one of the payloads
LlmIntentResponses ==
    {[kind |-> "raises", payload |-> EMPTY_INTENT], [kind |-> "unparsable", payload |-> EMPTY_INTENT]}
        \cup {[kind |-> "payload", payload |-> q] : q \in LLM_PAYLOADS}

LLM_REPLY_TEXT == "Try Sushi Palace for a quiet dinner."

\* client.invoke for the reply prompt: it raises, answers blank text, or answers a text
LlmReplyResponses == {[kind |-> "raises", text |-> ""], [kind |-> "text", text |-> "  "],
                      [kind |-> "text", text |-> LLM_REPLY_TEXT]}

\* whether _extract_intent_with_llm returns None: there is no client, or invoke raises,
\* or its answer holds no JSON object
LlmIntentIsNone(client, response) == client = "none" \/ response.kind # "payload"

\* _extract_intent, for the client _build_llm_client returned and what invoke does
ExtractIntent(message, preferences, client, response) ==
    IF LlmIntentIsNone(client, response) THEN ExtractIntentHeuristic(message, preferences)
    ELSE MergeIntentWithMessagePriority(NormalizeIntent(response.payload),
                                        ExtractIntentHeuristic(message, preferences))

\* _build_reply, for the client _build_llm_client returned and what invoke does
BuildReply(suggestions, client, response) ==
    IF client = "client" /\ response.kind = "text" /\ Strip(response.text) # ""
    THEN Strip(response.text)
    ELSE BuildFallbackReply(suggestions)

\* the Tavily client: "none" when no key is set or the import fails, "raises" when the
\* constructor raises (it is called outside any try), "client" otherwise
TavilyClientOutcomes(configured) == IF configured THEN {"none", "raises", "client"} ELSE {"none"}

TAVILY_ROW == [title |-> "Visit us", content |-> "Open daily 11-9, live music on Friday"]

\* client.search: it raises; it returns a dict of rows; or it returns a value that is
\* no dict of dict rows ("malformed"), on which .get raises
TavilySearchResults ==
    {[kind |-> "raises", rows |-> <<>>], [kind |-> "malformed", rows |-> <<>>],
     [kind |-> "results", rows |-> <<>>], [kind |-> "results", rows |-> <<TAVILY_ROW>>]}

\* f"{title}: {content}".strip(": ").strip()
MergedSnippet(row) == Strip(StripChars(Strip(row.title) \o ": " \o Strip(row.content), ": "))

RECURSIVE Snippets(_)
\* the snippets of one search result
Snippets(rows) ==
    IF Len(rows) = 0 THEN <<>>
    ELSE (IF MergedSnippet(Head(rows)) # "" THEN <<Truncate(MergedSnippet(Head(rows)), TRUNCATE_LEN)>> ELSE <<>>)
            \o Snippets(Tail(rows))

RECURSIVE TavilyContextOf(_, _)
\* the loop of _fetch_tavily_context over ranked[:3], results[i] being what the search
\* for the i-th restaurant does; a search that raises is skipped (a malformed result
\* makes the function raise: see FetchTavilyContextRaises)
TavilyContextOf(items, results) ==
    IF Len(items) = 0 THEN <<>>
    ELSE (IF Head(results).kind = "results" /\ Len(Snippets(Take(Head(results).rows, 2))) > 0
          THEN <<[id |-> Head(items).restaurant.id, snippets |-> Snippets(Take(Head(results).rows, 2))]>>
          ELSE <<>>) \o TavilyContextOf(Tail(items), Tail(results))

\* _fetch_tavily_hours_hint for a client and what its search does: the hint, Null for None
TavilyHoursHint(result) ==
    IF result.kind = "results" /\ Len(result.rows) > 0 /\ MergedSnippet(result.rows[1]) # ""
    THEN Truncate(MergedSnippet(result.rows[1]), TRUNCATE_LEN)
    ELSE Null

(***************************************************************************)
(* The data the model runs on.                                             *)
(***************************************************************************)
TacoTown ==
    [id |-> 1, name |-> "Taco Town", cuisine_type |-> "Mexican", description |-> Null,
     street |-> Null, city |-> "San Jose", state |-> Null, zip_code |-> Null,
     phone |-> Null, email |-> Null, hours_json |-> Null, pricing_tier |-> "$",
     amenities |-> Null]
BurritoBarn ==
    [id |-> 2, name |-> "Burrito Barn", cuisine_type |-> "Mexican", description |-> Null,
     street |-> Null, city |-> "San Jose", state |-> Null, zip_code |-> Null,
     phone |-> "408-555-0102", email |-> "hi@barn.test", hours_json |-> Null, pricing_tier |-> "$",
     amenities |-> Null]
SushiPalace ==
    [id |-> 3, name |-> "Sushi Palace", cuisine_type |-> "Japanese",
     description |-> "Quiet sushi bar for a date", street |-> "1 Main St", city |-> "San Jose",
     state |-> "CA", zip_code |-> "95112", phone |-> "408-555-0101", email |-> Null,
     hours_json |-> << <<"monday", "11:00-21:00">>, <<"tuesday", "11:00-21:00">> >>,
     pricing_tier |-> "$$", amenities |-> <<"wifi", "outdoor">>]
PastaRoma ==
    [id |-> 4, name |-> "Pasta Roma", cuisine_type |-> "Italian",
     description |-> "Vegan friendly italian dinner", street |-> Null, city |-> "Santa Clara",
     state |-> Null, zip_code |-> Null, phone |-> Null, email |-> Null, hours_json |-> Null,
     pricing_tier |-> "$$$", amenities |-> <<"parking">>]
ALL_RESTAURANTS == <<TacoTown, BurritoBarn, SushiPalace, PastaRoma>>

\* how many rows of ALL_RESTAURANTS the restaurants table holds
MaxCatalog == 3

ALL_REVIEWS ==
    << [restaurant_id |-> 1, rating |-> 4], [restaurant_id |-> 2, rating |-> 4],
       [restaurant_id |-> 3, rating |-> 5], [restaurant_id |-> 3, rating |-> 4],
       [restaurant_id |-> 4, rating |-> 3] >>

SAVED_PREFERENCES ==
    [cuisines |-> <<"Mexican", "Japanese">>, price_range |-> "$",
     preferred_locations |-> <<"Santa Clara">>, dietary_needs |-> <<"vegan">>,
     ambiance |-> <<"romantic">>, sort_preference |-> "rating"]
PREFERENCES == {EMPTY_PREFERENCES, SAVED_PREFERENCES}

KEYWORD_LISTS == {<<>>, <<"nomatch">>, <<"taco", "date">>}
\* the intents the ranker is run on
INTENTS ==
    {[EMPTY_INTENT EXCEPT !.cuisines = c, !.location = l, !.keywords = k] :
        c \in {<<>>, <<"mexican">>, <<"klingon">>, <<"italian", "japanese">>},
        l \in {Null, "san", "Mars"},
        k \in KEYWORD_LISTS}
    \cup {[cuisines |-> <<"japanese">>, price_range |-> "$$", location |-> "San Jose",
           dietary_needs |-> <<"vegan">>, ambiance |-> <<"quiet">>,
           keywords |-> <<"sushi", "bar", "wifi", "date", "palace">>, occasion |-> "date"],
          [EMPTY_INTENT EXCEPT !.price_range = "$", !.occasion = "dinner"]}

RECURSIVE DeliveryOrders(_)
\* the orders in which a query without ORDER BY may deliver the rows
DeliveryOrders(rows) ==
    IF Len(rows) = 0 THEN {<<>>}
    ELSE UNION {{<<rows[i]>> \o rest :
                    rest \in DeliveryOrders(SubSeq(rows, 1, i - 1) \o SubSeq(rows, i + 1, Len(rows)))} :
                i \in 1..Len(rows)}

\* the users that call the assistant
USERS == {1, 2}

\* the user_preferences table: user 2 saved preferences, user 1 has no row
USER_PREFERENCES ==
    {[user_id |-> 2, cuisines |-> SAVED_PREFERENCES.cuisines,
      price_range |-> SAVED_PREFERENCES.price_range,
      preferred_locations |-> SAVED_PREFERENCES.preferred_locations,
      dietary_needs |-> SAVED_PREFERENCES.dietary_needs,
      ambiance |-> SAVED_PREFERENCES.ambiance,
      sort_preference |-> SAVED_PREFERENCES.sort_preference]}

\* the messages a turn is run on
MESSAGES ==
    {"", "   ",
     "what are the hours for the first one",
     "is the 2nd open late",
     "hours of the third",
     "hours for the second or the first",
     "recommend me something new",
     "show me places with parking",
     "find mexican food",
     "what's its phone number",
     "call them",
     "tell me about Taco Town",
     "where is the last one",
     "italian dinner in Santa Clara $$",
     "japanese dinner near San Jose",
     "find korean bbq",
     "the best",
     "is Taco Town the first",
     "address of the last or the 2nd",
     "address of the top or the last",
     "address of the top pick",
     "thanks"}

Turn(role, content) == [role |-> role, content |-> content]

\* an assistant reply with a numbered list of three restaurants
LIST_OF_THREE ==
    "Here are top matches based on your preferences and query:\n1. Sushi Palace (4.5*, $$) - Matches your cuisine request\n2. Taco Town ($) - Rated 4.0/5 by users\n3. Burrito Barn - Matches your budget"

\* an assistant reply with a numbered list of four restaurants
LIST_OF_FOUR ==
    "1. Sushi Palace - quiet\n2. Taco Town - cheap\n3. Burrito Barn - big\n4. Pasta Roma - fresh pasta"

\* the conversation histories a turn is run on
HISTORIES ==
    {<<>>,
     <<Turn("user", "japanese or mexican food"), Turn("assistant", LIST_OF_THREE)>>,
     <<Turn("user", "burritos"), Turn("assistant", "1. Burrito Barn - the only match")>>,
     <<Turn("user", "hello"), Turn("assistant", "I think Taco Town would suit you.")>>,
     <<Turn("user", "mexican food")>>,
     <<Turn("user", "anything"), Turn("assistant", "1. Ghost Kitchen - new\n2. Taco Town ($) - ok")>>,
     <<Turn("user", "more"), Turn("assistant", LIST_OF_FOUR)>>,
     <<Turn("user", "tacos"), Turn("assistant", "1. Sushi Palace - quiet\n2. Taco% - cheap")>>}

\* the decision record of a turn that has not reached _handle_attribute_followup
NO_DECISION ==
    [route |-> Null, followup_type |-> Null, ranked_names |-> <<>>,
     referenced_name |-> Null, restaurant |-> NoRestaurant]

(***************************************************************************)
(* State.                                                                  *)
(***************************************************************************)
VARIABLES
    restaurants,            \* the restaurants table, in delivery order
    reviews,                \* the reviews table
    settings,               \* which provider keys are set: [llm_api_key, tavily_api_key]
    user_preferences,       \* the user_preferences table: at most one row per user
    pc,                     \* where the run is
    user_id,                \* the arguments of generate_chat_response
    message,
    conversation_history,
    preferences,            \* the user's preferences, as _load_user_preferences returns them
    followup,               \* what _handle_attribute_followup decided
    intent,                 \* the query intent
    ranked,                 \* the result of _search_and_rank_restaurants
    tavily_context,         \* the result of _fetch_tavily_context
    suggestions,            \* suggested_restaurants of the response
    reply,                  \* reply of the response
    error,                  \* the exception the call raised, Null when none
    invoked,                \* the pipeline components called during the turn
    normalized,             \* _normalize_intent(intent)
    renormalized,           \* _normalize_intent(normalized)
    llm_intent,             \* what _extract_intent_with_llm returned: [none, intent]
    heuristic_intent,       \* what _extract_intent_heuristic returned
    favorites,              \* the favorites table: a bag of rows [user_id, restaurant_id]
    review_table,           \* the reviews table as the review service sees it: rows
                            \* [id, restaurant_id, user_id, rating, comment]
    next_review_id,         \* the AUTO_INCREMENT counter of reviews.id
    ownership,              \* restaurants.created_by_user_id and claimed_by_owner_id, by id
    photos,                 \* the restaurant_photos table: a bag of rows
                            \* [restaurant_id, uploaded_by_user_id, uploaded_by_owner_id]
    call,                   \* the last service call: its name and arguments
    sessions                \* the claim_restaurant calls that run side by side, by owner

vars == <<restaurants, reviews, settings, user_preferences, pc, user_id, message, conversation_history,
          preferences, followup, intent, ranked, tavily_context, suggestions, reply, error,
          invoked, normalized, renormalized, llm_intent, heuristic_intent, favorites,
          review_table, next_review_id, ownership, photos, call, sessions>>

tables == <<restaurants, reviews, settings, user_preferences>>
request == <<user_id, message, conversation_history>>
normal_forms == <<normalized, renormalized>>
merge_inputs == <<llm_intent, heuristic_intent>>
services == <<favorites, review_table, next_review_id, ownership, photos, call, sessions>>

\* _load_user_preferences: the user's row as a dictionary, the defaults when the user
\* has no row
LoadUserPreferences(uid) ==
    LET rows == {row \in user_preferences : row.user_id = uid}
    IN IF rows = {} THEN EMPTY_PREFERENCES
       ELSE LET pref == CHOOSE row \in rows : TRUE
            IN [cuisines |-> pref.cuisines, price_range |-> pref.price_range,
                preferred_locations |-> pref.preferred_locations,
                dietary_needs |-> pref.dietary_needs, ambiance |-> pref.ambiance,
                sort_preference |-> IF Truthy(pref.sort_preference) THEN pref.sort_preference
                                    ELSE "rating"]

\* no request is being served
NoRequest ==
    /\ user_id = 1
    /\ message = ""
    /\ conversation_history = <<>>

\* the locals of generate_chat_response before the call
NoTurn ==
    /\ followup = NO_DECISION
    /\ tavily_context = <<>>
    /\ suggestions = <<>>
    /\ reply = ""
    /\ error = Null
    /\ invoked = {}

NO_CALL == [op |-> "none"]

\* no claim_restaurant call runs beside another
NO_SESSIONS == <<>>

\* the tables of the other services are empty and none of them has been called
NoServiceCalls ==
    /\ favorites = EmptyBag
    /\ review_table = {}
    /\ next_review_id = 1
    /\ ownership = <<>>
    /\ photos = EmptyBag
    /\ call = NO_CALL
    /\ sessions = NO_SESSIONS

NoNormalForms ==
    /\ normalized = EMPTY_INTENT
    /\ renormalized = EMPTY_INTENT

\* _extract_intent was not called
NoMergeInputs ==
    /\ llm_intent = [none |-> TRUE, intent |-> EMPTY_INTENT]
    /\ heuristic_intent = EMPTY_INTENT

(***************************************************************************)
(* Spec: one call of generate_chat_response after another.                 *)
(***************************************************************************)
Init ==
    /\ restaurants = Take(ALL_RESTAURANTS, MaxCatalog)
    /\ reviews = ALL_REVIEWS
    /\ settings \in [llm_api_key : BOOLEAN, tavily_api_key : BOOLEAN]
    /\ user_preferences = USER_PREFERENCES
    /\ pc = "idle"
    /\ NoRequest
    /\ preferences = EMPTY_PREFERENCES
    /\ intent = EMPTY_INTENT
    /\ ranked = <<>>
    /\ NoTurn
    /\ NoNormalForms
    /\ NoMergeInputs
    /\ NoServiceCalls

\* a client calls generate_chat_response
Receive ==
    /\ pc = "idle"
    /\ user_id' \in USERS
    /\ message' \in MESSAGES
    /\ conversation_history' \in HISTORIES
    /\ pc' = "start"
    /\ UNCHANGED <<tables, preferences, followup, intent, ranked, tavily_context, suggestions,
                   reply, error, invoked, normal_forms, merge_inputs, services>>

clean_message == Strip(message)

\* clean_message.lower(), tabulated over the messages of the model
LoweredMessages == [m \in MESSAGES |-> Lower(Strip(m))]
lowered_message == LoweredMessages[message]

\* lines 141-143: a blank message is refused
RejectBlankMessage ==
    /\ pc = "start"
    /\ clean_message = ""
    /\ error' = "ServiceBadRequest"
    /\ pc' = "raised"
    /\ UNCHANGED <<tables, request, preferences, followup, intent, ranked, tavily_context,
                   suggestions, reply, invoked, normal_forms, merge_inputs, services>>

\* lines 145-151 and 182-229: the preferences are loaded and _handle_attribute_followup
\* decides what the turn is; the context inference runs the candidate search
ResolveFollowup ==
    /\ pc = "start"
    /\ clean_message # ""
    /\ preferences' = LoadUserPreferences(user_id)
    /\ followup' = FollowupDecision(restaurants, reviews, clean_message, conversation_history,
                                    LoadUserPreferences(user_id))
    /\ invoked' = IF /\ Len(ExtractLatestRankedNames(restaurants, conversation_history)) = 0
                     /\ InferenceSearches(conversation_history, LoadUserPreferences(user_id))
                  THEN {"_search_and_rank_restaurants"} ELSE {}
    /\ pc' = "followup"
    /\ UNCHANGED <<tables, request, intent, ranked, tavily_context, suggestions, reply, error,
                   normal_forms, merge_inputs, services>>

\* lines 231-250 with no hint to fetch: the answer about the restaurant found
FollowupAnswer(tavily_hours) ==
    LET restaurant == followup.restaurant
        rating == RatingOf(reviews, restaurant.id)
        followup_type == IF followup.followup_type = Null THEN "summary" ELSE followup.followup_type
        answer == BuildAttributeFollowupReply(restaurant, followup_type, rating[1], rating[2],
                                              tavily_hours)
    IN [reply |-> answer[1], suggestions |-> <<Suggestion(restaurant, answer[2], rating[1])>>]

\* whether the answer calls _fetch_tavily_hours_hint
FetchesHoursHint ==
    followup.followup_type = "hours" /\ ~HasStructuredHours(followup.restaurant)

\* lines 231-250: the follow-up is answered from the restaurant's columns
AnswerFollowup ==
    /\ pc = "followup"
    /\ followup.route = "FOLLOWUP_ANSWER"
    /\ ~FetchesHoursHint
    /\ reply' = FollowupAnswer(Null).reply
    /\ suggestions' = FollowupAnswer(Null).suggestions
    /\ pc' = "respond"
    /\ UNCHANGED <<tables, request, preferences, followup, intent, ranked, tavily_context, error,
                   invoked, normal_forms, merge_inputs, services>>

\* lines 231-250 and _fetch_tavily_hours_hint: the hours are asked of the web search
AnswerFollowupWithHoursHint ==
    /\ pc = "followup"
    /\ followup.route = "FOLLOWUP_ANSWER"
    /\ FetchesHoursHint
    /\ \E client \in TavilyClientOutcomes(settings.tavily_api_key), result \in TavilySearchResults :
        IF client = "raises" \/ (client = "client" /\ result.kind = "malformed")
        THEN /\ error' = IF client = "raises" THEN "TavilyClientError" ELSE "AttributeError"
             /\ pc' = "raised"
             /\ UNCHANGED <<reply, suggestions>>
        ELSE /\ reply' = FollowupAnswer(IF client = "client" THEN TavilyHoursHint(result) ELSE Null).reply
             /\ suggestions' = FollowupAnswer(Null).suggestions
             /\ pc' = "respond"
             /\ UNCHANGED error
    /\ UNCHANGED <<tables, request, preferences, followup, intent, ranked, tavily_context,
                   invoked, normal_forms, merge_inputs, services>>

\* the clarification handed on to the reply composer instead of being returned
ClarifyFollowupThroughComposer ==
    /\ pc = "followup"
    /\ followup.route = "FOLLOWUP_CLARIFY"
    /\ suggestions' = BuildFollowupSuggestions(restaurants, reviews, Take(followup.ranked_names, 3))
    /\ pc' = "compose"
    /\ UNCHANGED <<tables, request, preferences, followup, intent, ranked, tavily_context, reply,
                   error, invoked, normal_forms, merge_inputs, services>>

\* lines 195-203, 211-214 and 225-228: the follow-up is answered by a clarification
ClarifyFollowup ==
    /\ pc = "followup"
    /\ followup.route = "FOLLOWUP_CLARIFY"
    /\ reply' = IF Len(followup.ranked_names) = 0 THEN NEED_TARGET_REPLY
                ELSE BuildFollowupClarificationReply(followup.ranked_names)
    /\ suggestions' = BuildFollowupSuggestions(restaurants, reviews, Take(followup.ranked_names, 3))
    /\ pc' = "respond"
    /\ UNCHANGED <<tables, request, preferences, followup, intent, ranked, tavily_context, error,
                   invoked, normal_forms, merge_inputs, services>>

\* line 155 and _extract_intent: the heuristic pass, the LLM pass and the merge
ExtractIntentStep ==
    /\ pc = "followup"
    /\ followup.route = "FRESH_SEARCH"
    /\ invoked' = invoked \cup {"_extract_intent"}
    /\ \E client \in LlmClientOutcomes(settings.llm_api_key), response \in LlmIntentResponses :
        IF client = "raises"
        THEN /\ error' = "LlmClientError"
             /\ pc' = "raised"
             /\ UNCHANGED intent
        ELSE /\ intent' = ExtractIntent(clean_message, preferences, client, response)
             /\ pc' = "search"
             /\ UNCHANGED error
    /\ UNCHANGED <<tables, request, preferences, followup, ranked, tavily_context, suggestions,
                   reply, normal_forms, merge_inputs, services>>

\* line 156: _search_and_rank_restaurants
SearchAndRank ==
    /\ pc = "search"
    /\ ranked' = SearchAndRankRestaurants(restaurants, reviews, intent, preferences)
    /\ invoked' = invoked \cup {"_search_and_rank_restaurants"}
    /\ pc' = "enrich"
    /\ UNCHANGED <<tables, request, preferences, followup, intent, tavily_context, suggestions,
                   reply, error, normal_forms, merge_inputs, services>>

\* top_ranked of generate_chat_response
top_ranked == Take(ranked, 5)

\* lines 158-164: _fetch_tavily_context over top_ranked[:3], then the suggestions
FetchTavilyContext ==
    /\ pc = "enrich"
    /\ invoked' = invoked \cup {"_fetch_tavily_context"}
    /\ \E client \in TavilyClientOutcomes(settings.tavily_api_key),
          results \in [1..Len(Take(top_ranked, 3)) -> TavilySearchResults] :
        IF client = "raises"
              \/ (client = "client" /\ \E i \in DOMAIN results : results[i].kind = "malformed")
        THEN /\ error' = IF client = "raises" THEN "TavilyClientError" ELSE "AttributeError"
             /\ pc' = "raised"
             /\ UNCHANGED <<tavily_context, suggestions>>
        ELSE /\ tavily_context' = IF client = "client"
                                  THEN TavilyContextOf(Take(top_ranked, 3), results) ELSE <<>>
             /\ suggestions' = BuildSuggestions(top_ranked, tavily_context')
             /\ pc' = "compose"
             /\ UNCHANGED error
    /\ UNCHANGED <<tables, request, preferences, followup, intent, ranked, reply, normal_forms, merge_inputs, services>>

\* lines 165-172: _build_reply
ComposeReply ==
    /\ pc = "compose"
    /\ invoked' = invoked \cup {"_build_reply"}
    /\ \E client \in LlmClientOutcomes(settings.llm_api_key), response \in LlmReplyResponses :
        IF client = "raises"
        THEN /\ error' = "LlmClientError"
             /\ pc' = "raised"
             /\ UNCHANGED reply
        ELSE /\ reply' = BuildReply(suggestions, client, response)
             /\ pc' = "respond"
             /\ UNCHANGED error
    /\ UNCHANGED <<tables, request, preferences, followup, intent, ranked, tavily_context,
                   suggestions, normal_forms, merge_inputs, services>>

\* the return of a call that keeps the loaded preferences for the next call
ReturnKeepingPreferences ==
    /\ pc \in {"respond", "raised"}
    /\ pc' = "idle"
    /\ user_id' = 1
    /\ message' = ""
    /\ conversation_history' = <<>>
    /\ followup' = NO_DECISION
    /\ intent' = EMPTY_INTENT
    /\ ranked' = <<>>
    /\ tavily_context' = <<>>
    /\ suggestions' = <<>>
    /\ reply' = ""
    /\ error' = Null
    /\ invoked' = {}
    /\ UNCHANGED <<tables, preferences, normal_forms, merge_inputs, services>>

\* the call is over: the response was returned or the exception was raised
Return ==
    /\ pc \in {"respond", "raised"}
    /\ pc' = "idle"
    /\ user_id' = 1
    /\ message' = ""
    /\ conversation_history' = <<>>
    /\ preferences' = EMPTY_PREFERENCES
    /\ followup' = NO_DECISION
    /\ intent' = EMPTY_INTENT
    /\ ranked' = <<>>
    /\ tavily_context' = <<>>
    /\ suggestions' = <<>>
    /\ reply' = ""
    /\ error' = Null
    /\ invoked' = {}
    /\ UNCHANGED <<tables, normal_forms, merge_inputs, services>>

Next ==
    \/ Receive
    \/ RejectBlankMessage
    \/ ResolveFollowup
    \/ AnswerFollowup
    \/ AnswerFollowupWithHoursHint
    \/ ClarifyFollowup
    \/ ExtractIntentStep
    \/ SearchAndRank
    \/ FetchTavilyContext
    \/ ComposeReply
    \/ Return

Spec == Init /\ [][Next]_vars

(***************************************************************************)
(* SpecRank: _search_and_rank_restaurants applied to an intent.            *)
(***************************************************************************)
RankInit ==
    /\ restaurants \in DeliveryOrders(Take(ALL_RESTAURANTS, MaxCatalog))
    /\ reviews = ALL_REVIEWS
    /\ settings = [llm_api_key |-> FALSE, tavily_api_key |-> FALSE]
    /\ user_preferences = USER_PREFERENCES
    /\ preferences \in PREFERENCES
    /\ intent \in INTENTS
    /\ ranked = <<>>
    /\ pc = "rank"
    /\ NoRequest
    /\ NoTurn
    /\ NoNormalForms
    /\ NoMergeInputs
    /\ NoServiceCalls

Rank ==
    /\ pc = "rank"
    /\ ranked' = SearchAndRankRestaurants(restaurants, reviews, intent, preferences)
    /\ pc' = "ranked"
    /\ UNCHANGED <<tables, request, preferences, followup, intent, tavily_context, suggestions,
                   reply, error, invoked, normal_forms, merge_inputs, services>>

RankNext == Rank

SpecRank == RankInit /\ [][RankNext]_vars

(***************************************************************************)
(* SpecNorm: _normalize_intent applied to a raw intent, then to its result. *)
(***************************************************************************)
\* the raw intents: payloads as a language model may return them
RAW_INTENTS ==
    {[cuisines |-> c, price_range |-> p, location |-> l, dietary_needs |-> <<" Vegan">>,
      ambiance |-> <<>>, keywords |-> k, occasion |-> o] :
        c \in {<<>>, <<" Thai ", "", "MEXICAN", "thai">>,
               <<"a", "b", "c", "d", "e", "f", "g">>},
        p \in {Null, "$$", "cheap"},
        l \in {Null, "", " ", " San Jose "},
        k \in {<<"Sushi ">>, <<"k1", "k2", "k3", "k4", "k5", "k6", "k7", "k8", "k9">>},
        o \in {Null, "  ", " Date Night"}}

NormInit ==
    /\ restaurants = Take(ALL_RESTAURANTS, MaxCatalog)
    /\ reviews = ALL_REVIEWS
    /\ settings = [llm_api_key |-> FALSE, tavily_api_key |-> FALSE]
    /\ user_preferences = USER_PREFERENCES
    /\ preferences = EMPTY_PREFERENCES
    /\ intent \in RAW_INTENTS
    /\ ranked = <<>>
    /\ pc = "normalize"
    /\ NoRequest
    /\ NoTurn
    /\ NoNormalForms
    /\ NoMergeInputs
    /\ NoServiceCalls

Normalize ==
    /\ pc = "normalize"
    /\ normalized' = NormalizeIntent(intent)
    /\ pc' = "renormalize"
    /\ UNCHANGED <<tables, request, preferences, followup, intent, ranked, tavily_context,
                   suggestions, reply, error, invoked, renormalized, merge_inputs, services>>

Renormalize ==
    /\ pc = "renormalize"
    /\ renormalized' = NormalizeIntent(normalized)
    /\ pc' = "normalized"
    /\ UNCHANGED <<tables, request, preferences, followup, intent, ranked, tavily_context,
                   suggestions, reply, error, invoked, normalized, merge_inputs, services>>

NormNext == Normalize \/ Renormalize

SpecNorm == NormInit /\ [][NormNext]_vars


(***************************************************************************)
(* SpecScore: _score_restaurant applied to one restaurant with its rating, *)
(* as the loop of _search_and_rank_restaurants calls it.                   *)
(***************************************************************************)
\* how many reviews each restaurant has in the tables the scorer is run on: none, one,
\* and counts around the cap of 40
REVIEW_COUNTS == {0, 1, 39, 40, 41, 45}

\* the reviews table in which the restaurant has n reviews, the first with the rating
\* first and the others with the rating rest
ReviewsOf(id, n, first, rest) ==
    [i \in 1..n |-> [restaurant_id |-> id, rating |-> IF i = 1 THEN first ELSE rest]]

\* the intents the scorer is run on: those of the ranker, and intents whose occasion or
\* keywords are or are not in the text blob
SCORE_INTENTS ==
    INTENTS
    \cup {[EMPTY_INTENT EXCEPT !.occasion = o, !.keywords = k, !.dietary_needs = d] :
            o \in {Null, "date", "Dinner"},
            k \in {<<>>, <<"sushi", "sushi", "bar", "quiet", "friendly">>},
            d \in {<<>>, <<"Vegan", "wifi">>}}

ScoreInit ==
    /\ \E r \in Range(ALL_RESTAURANTS), n \in REVIEW_COUNTS, rest \in {3, 5} :
        /\ restaurants = <<r>>
        /\ reviews = ReviewsOf(r.id, n, 3, rest)
    /\ settings = [llm_api_key |-> FALSE, tavily_api_key |-> FALSE]
    /\ user_preferences = USER_PREFERENCES
    /\ preferences \in PREFERENCES
    /\ intent \in SCORE_INTENTS
    /\ ranked = <<>>
    /\ pc = "score"
    /\ NoRequest
    /\ NoTurn
    /\ NoNormalForms
    /\ NoMergeInputs
    /\ NoServiceCalls

\* lines 815-835: the rating of the restaurant is fetched and _score_restaurant is called
Score ==
    /\ pc = "score"
    /\ ranked' = ScoreAll(restaurants, reviews, intent, preferences)
    /\ pc' = "scored"
    /\ UNCHANGED <<tables, request, preferences, followup, intent, tavily_context, suggestions,
                   reply, error, invoked, normal_forms, merge_inputs, services>>

ScoreNext == Score

SpecScore == ScoreInit /\ [][ScoreNext]_vars

(***************************************************************************)
(* SpecIntent: _extract_intent applied to a message, with and without the  *)
(* LLM pass.                                                               *)
(***************************************************************************)
\* the messages _extract_intent is run on
INTENT_MESSAGES ==
    {"find mexican food",
     "sushi sushi bar",
     "italian chinese mexican indian japanese thai korean",
     "italian dinner in Santa Clara $$",
     "vegan romantic brunch near Palo Alto",
     "thanks"}

\* the JSON objects the language model answers the intent prompt with
INTENT_PAYLOADS ==
    LLM_PAYLOADS \cup
    {[EMPTY_INTENT EXCEPT !.keywords = <<"Sushi", "tempura">>, !.location = " "],
     [EMPTY_INTENT EXCEPT !.cuisines = <<"Thai", "thai ", "french">>, !.price_range = "$$$",
                          !.location = "Mountain View", !.occasion = "Birthday"],
     [EMPTY_INTENT EXCEPT !.keywords = <<"k1", "k2", "k3", "k4", "k5", "k6", "k7", "k8", "k9">>,
                          !.dietary_needs = <<"halal">>],
     [EMPTY_INTENT EXCEPT !.cuisines = <<"a", "b", "c", "d", "e", "f", "g">>,
                          !.ambiance = <<"quiet">>, !.keywords = <<"food", "mexican">>]}

\* the answers of client.invoke to the intent prompt
IntentResponses ==
    {[kind |-> "raises", payload |-> EMPTY_INTENT], [kind |-> "unparsable", payload |-> EMPTY_INTENT]}
        \cup {[kind |-> "payload", payload |-> q] : q \in INTENT_PAYLOADS}

IntentInit ==
    /\ restaurants = Take(ALL_RESTAURANTS, MaxCatalog)
    /\ reviews = ALL_REVIEWS
    /\ settings \in {[llm_api_key |-> k, tavily_api_key |-> FALSE] : k \in BOOLEAN}
    /\ user_preferences = USER_PREFERENCES
    /\ user_id \in USERS
    /\ message \in INTENT_MESSAGES
    /\ conversation_history = <<>>
    /\ preferences = LoadUserPreferences(user_id)
    /\ intent = EMPTY_INTENT
    /\ ranked = <<>>
    /\ pc = "extract_intent"
    /\ NoTurn
    /\ NoNormalForms
    /\ NoMergeInputs
    /\ NoServiceCalls

\* _extract_intent: the heuristic pass, the LLM pass and, when the LLM pass returned an
\* intent, the merge
ExtractIntentCall ==
    /\ pc = "extract_intent"
    /\ \E client \in LlmClientOutcomes(settings.llm_api_key), response \in IntentResponses :
        IF client = "raises"
        THEN /\ error' = "LlmClientError"
             /\ pc' = "raised"
             /\ UNCHANGED <<intent, merge_inputs>>
        ELSE /\ heuristic_intent' = ExtractIntentHeuristic(message, preferences)
             /\ llm_intent' = IF LlmIntentIsNone(client, response)
                              THEN [none |-> TRUE, intent |-> EMPTY_INTENT]
                              ELSE [none |-> FALSE, intent |-> NormalizeIntent(response.payload)]
             /\ intent' = ExtractIntent(message, preferences, client, response)
             /\ pc' = "intent"
             /\ UNCHANGED error
    /\ UNCHANGED <<tables, request, preferences, followup, ranked, tavily_context, suggestions,
                   reply, invoked, normal_forms, services>>

IntentNext == ExtractIntentCall

SpecIntent == IntentInit /\ [][IntentNext]_vars

(***************************************************************************)
(* The other services.  Each specification below runs the calls of one     *)
(* service one after another on its tables; call holds the name and the    *)
(* arguments of the last call and error the exception it raised (Null when *)
(* it returned), until the caller has them.                                *)
(***************************************************************************)
\* how many rows of ALL_RESTAURANTS the restaurants table holds while the services run
MaxRestaurants == 2

\* an id no row has
UNKNOWN_ID == 999999

\* the assistant is not serving a request
AssistantIdle ==
    /\ reviews = <<>>
    /\ settings = [llm_api_key |-> FALSE, tavily_api_key |-> FALSE]
    /\ user_preferences = USER_PREFERENCES
    /\ pc = "idle"
    /\ NoRequest
    /\ preferences = EMPTY_PREFERENCES
    /\ intent = EMPTY_INTENT
    /\ ranked = <<>>
    /\ NoTurn
    /\ NoNormalForms
    /\ NoMergeInputs

assistant == <<tables, request, preferences, followup, intent, ranked, tavily_context,
               suggestions, reply, invoked, normal_forms, merge_inputs>>

\* select(Restaurant.id): the ids of the restaurants table
RestaurantIds == {restaurants[i].id : i \in 1..Len(restaurants)}

\* the restaurant ids a caller passes
RESTAURANT_ARGS == (1..MaxRestaurants) \cup {UNKNOWN_ID}

\* the caller has the response or the exception of the call
ServiceReturn ==
    /\ pc \in {"respond", "raised"}
    /\ pc' = "idle"
    /\ call' = NO_CALL
    /\ error' = Null
    /\ UNCHANGED <<assistant, sessions, favorites, review_table, next_review_id, ownership, photos>>

(***************************************************************************)
(* SpecFavorites: add_favorite and remove_favorite.                        *)
(***************************************************************************)
Favorite(uid, rid) == [user_id |-> uid, restaurant_id |-> rid]

FavoritesInit ==
    /\ restaurants = Take(ALL_RESTAURANTS, MaxRestaurants)
    /\ AssistantIdle
    /\ NoServiceCalls

\* add_favorite without the check for an existing favorite
AddFavoriteWithoutDuplicateCheck ==
    \E rid \in RESTAURANT_ARGS, uid \in USERS :
        /\ pc = "idle"
        /\ call' = [op |-> "add_favorite", restaurant_id |-> rid, user_id |-> uid]
        /\ IF rid \notin RestaurantIds
           THEN /\ error' = "ServiceNotFound"
                /\ UNCHANGED favorites
           ELSE /\ favorites' = favorites (+) SetToBag({Favorite(uid, rid)})
                /\ error' = Null
        /\ pc' = IF error' = Null THEN "respond" ELSE "raised"
        /\ UNCHANGED <<assistant, sessions, review_table, next_review_id, ownership, photos>>

\* add_favorite.  Run one call after another, the commit cannot meet a row another
\* call inserted after the duplicate check, so the IntegrityError branch is not taken.
AddFavorite ==
    \E rid \in RESTAURANT_ARGS, uid \in USERS :
        /\ pc = "idle"
        /\ call' = [op |-> "add_favorite", restaurant_id |-> rid, user_id |-> uid]
        /\ IF rid \notin RestaurantIds
           THEN /\ error' = "ServiceNotFound"
                /\ UNCHANGED favorites
           ELSE IF CopiesIn(Favorite(uid, rid), favorites) > 1
           THEN /\ error' = "MultipleResultsFound"
                /\ UNCHANGED favorites
           ELSE IF CopiesIn(Favorite(uid, rid), favorites) = 1
           THEN /\ error' = "ServiceConflict"
                /\ UNCHANGED favorites
           ELSE /\ favorites' = favorites (+) SetToBag({Favorite(uid, rid)})
                /\ error' = Null
        /\ pc' = IF error' = Null THEN "respond" ELSE "raised"
        /\ UNCHANGED <<assistant, sessions, review_table, next_review_id, ownership, photos>>

\* remove_favorite
RemoveFavorite ==
    \E rid \in RESTAURANT_ARGS, uid \in USERS :
        /\ pc = "idle"
        /\ call' = [op |-> "remove_favorite", restaurant_id |-> rid, user_id |-> uid]
        /\ IF CopiesIn(Favorite(uid, rid), favorites) > 1
           THEN /\ error' = "MultipleResultsFound"
                /\ UNCHANGED favorites
           ELSE IF CopiesIn(Favorite(uid, rid), favorites) = 0
           THEN /\ error' = "ServiceNotFound"
                /\ UNCHANGED favorites
           ELSE /\ favorites' = favorites (-) SetToBag({Favorite(uid, rid)})
                /\ error' = Null
        /\ pc' = IF error' = Null THEN "respond" ELSE "raised"
        /\ UNCHANGED <<assistant, sessions, review_table, next_review_id, ownership, photos>>

FavoritesNext == AddFavorite \/ RemoveFavorite \/ ServiceReturn

SpecFavorites == FavoritesInit /\ [][FavoritesNext]_vars

(***************************************************************************)
(* SpecReviews: create_review, update_review and delete_review.            *)
(***************************************************************************)
\* the highest reviews.id the model lets AUTO_INCREMENT hand out
MaxReviewId == 2

\* ReviewCreate.rating: ge=1, le=5
MIN_RATING == 1
MAX_RATING == 5
RATINGS == {MIN_RATING, MAX_RATING}

\* ReviewCreate.comment, None when the caller gives none
COMMENTS == {Null, "Great place"}

\* ReviewUpdate.rating: <<>> for None, <<r>> for the rating r
RATING_UPDATES == {<<>>} \cup {<<r>> : r \in RATINGS}

\* the review ids a caller passes
REVIEW_ARGS == (1..MaxReviewId) \cup {UNKNOWN_ID}

\* select(Review).where(Review.restaurant_id == restaurant_id, Review.user_id == user_id)
ReviewsOfPair(rid, uid) == {r \in review_table : r.restaurant_id = rid /\ r.user_id = uid}

\* select(Review).where(Review.id == review_id)
ReviewsWithId(review_id) == {r \in review_table : r.id = review_id}

ReviewsInit ==
    /\ restaurants = Take(ALL_RESTAURANTS, MaxRestaurants)
    /\ AssistantIdle
    /\ NoServiceCalls

\* create_review without the check for an existing review of the pair
CreateReviewWithoutDuplicateCheck ==
    \E rid \in RESTAURANT_ARGS, uid \in USERS, rating \in RATINGS, comment \in COMMENTS :
        /\ pc = "idle"
        /\ call' = [op |-> "create_review", restaurant_id |-> rid, user_id |-> uid,
                    rating |-> rating, comment |-> comment]
        /\ IF rid \notin RestaurantIds
           THEN /\ error' = "IntegrityError"
                /\ UNCHANGED <<review_table, next_review_id>>
           ELSE /\ next_review_id <= MaxReviewId
                /\ review_table' = review_table \cup
                        {[id |-> next_review_id, restaurant_id |-> rid, user_id |-> uid,
                          rating |-> rating, comment |-> comment]}
                /\ next_review_id' = next_review_id + 1
                /\ error' = Null
        /\ pc' = IF error' = Null THEN "respond" ELSE "raised"
        /\ UNCHANGED <<assistant, sessions, favorites, ownership, photos>>

\* create_review.  The service does not look the restaurant up: for an id that is not in
\* the restaurants table the INSERT fails on the foreign key at commit.
CreateReview ==
    \E rid \in RESTAURANT_ARGS, uid \in USERS, rating \in RATINGS, comment \in COMMENTS :
        /\ pc = "idle"
        /\ call' = [op |-> "create_review", restaurant_id |-> rid, user_id |-> uid,
                    rating |-> rating, comment |-> comment]
        /\ IF Cardinality(ReviewsOfPair(rid, uid)) > 1
           THEN /\ error' = "MultipleResultsFound"
                /\ UNCHANGED <<review_table, next_review_id>>
           ELSE IF ReviewsOfPair(rid, uid) # {}
           THEN /\ error' = "ServiceConflict"
                /\ UNCHANGED <<review_table, next_review_id>>
           ELSE IF rid \notin RestaurantIds
           THEN /\ error' = "IntegrityError"
                /\ UNCHANGED <<review_table, next_review_id>>
           ELSE /\ next_review_id <= MaxReviewId
                /\ review_table' = review_table \cup
                        {[id |-> next_review_id, restaurant_id |-> rid, user_id |-> uid,
                          rating |-> rating, comment |-> comment]}
                /\ next_review_id' = next_review_id + 1
                /\ error' = Null
        /\ pc' = IF error' = Null THEN "respond" ELSE "raised"
        /\ UNCHANGED <<assistant, sessions, favorites, ownership, photos>>

\* update_review without the check of the author
UpdateReviewByAnyone ==
    \E review_id \in REVIEW_ARGS, uid \in USERS, rating \in RATING_UPDATES, comment \in COMMENTS :
        /\ pc = "idle"
        /\ call' = [op |-> "update_review", review_id |-> review_id, user_id |-> uid,
                    rating |-> rating, comment |-> comment]
        /\ IF ReviewsWithId(review_id) = {}
           THEN /\ error' = "ServiceNotFound"
                /\ UNCHANGED review_table
           ELSE LET review == CHOOSE r \in ReviewsWithId(review_id) : TRUE
                IN /\ review_table' = (review_table \ {review}) \cup
                            {[review EXCEPT !.rating = IF rating # <<>> THEN rating[1] ELSE @,
                                            !.comment = IF comment # Null THEN comment ELSE @]}
                   /\ error' = Null
        /\ pc' = IF error' = Null THEN "respond" ELSE "raised"
        /\ UNCHANGED <<assistant, sessions, favorites, next_review_id, ownership, photos>>

\* update_review
UpdateReview ==
    \E review_id \in REVIEW_ARGS, uid \in USERS, rating \in RATING_UPDATES, comment \in COMMENTS :
        /\ pc = "idle"
        /\ call' = [op |-> "update_review", review_id |-> review_id, user_id |-> uid,
                    rating |-> rating, comment |-> comment]
        /\ IF ReviewsWithId(review_id) = {}
           THEN /\ error' = "ServiceNotFound"
                /\ UNCHANGED review_table
           ELSE LET review == CHOOSE r \in ReviewsWithId(review_id) : TRUE
                IN IF review.user_id # uid
                   THEN /\ error' = "ServiceForbidden"
                        /\ UNCHANGED review_table
                   ELSE /\ review_table' = (review_table \ {review}) \cup
                                {[review EXCEPT !.rating = IF rating # <<>> THEN rating[1] ELSE @,
                                                !.comment = IF comment # Null THEN comment ELSE @]}
                        /\ error' = Null
        /\ pc' = IF error' = Null THEN "respond" ELSE "raised"
        /\ UNCHANGED <<assistant, sessions, favorites, next_review_id, ownership, photos>>

\* delete_review
DeleteReview ==
    \E review_id \in REVIEW_ARGS, uid \in USERS :
        /\ pc = "idle"
        /\ call' = [op |-> "delete_review", review_id |-> review_id, user_id |-> uid]
        /\ IF ReviewsWithId(review_id) = {}
           THEN /\ error' = "ServiceNotFound"
                /\ UNCHANGED review_table
           ELSE LET review == CHOOSE r \in ReviewsWithId(review_id) : TRUE
                IN IF review.user_id # uid
                   THEN /\ error' = "ServiceForbidden"
                        /\ UNCHANGED review_table
                   ELSE /\ review_table' = review_table \ {review}
                        /\ error' = Null
        /\ pc' = IF error' = Null THEN "respond" ELSE "raised"
        /\ UNCHANGED <<assistant, sessions, favorites, next_review_id, ownership, photos>>

ReviewsNext == CreateReview \/ UpdateReview \/ DeleteReview \/ ServiceReturn

SpecReviews == ReviewsInit /\ [][ReviewsNext]_vars

(***************************************************************************)
(* SpecClaims: claim_restaurant.  A nullable id column is <<>> for NULL    *)
(* and <<id>> for the id.                                                  *)
(***************************************************************************)
NO_ID == <<>>

\* the ids of the owners table
OWNERS == {1, 2, 3}

\* the ownership columns of a restaurants row
Ownership(created_by_user_id, claimed_by_owner_id) ==
    [created_by_user_id |-> created_by_user_id, claimed_by_owner_id |-> claimed_by_owner_id]

ClaimsInit ==
    /\ restaurants = Take(ALL_RESTAURANTS, MaxRestaurants)
    /\ AssistantIdle
    /\ favorites = EmptyBag
    /\ review_table = {}
    /\ next_review_id = 1
    /\ photos = EmptyBag
    /\ call = NO_CALL
    /\ sessions = NO_SESSIONS
    /\ ownership \in [RestaurantIds -> {Ownership(NO_ID, c) : c \in {NO_ID} \cup {<<o>> : o \in OWNERS}}]

\* claim_restaurant without the check that the restaurant is unclaimed
ClaimRestaurantOverwriting ==
    \E rid \in RESTAURANT_ARGS, owner_id \in OWNERS :
        /\ pc = "idle"
        /\ call' = [op |-> "claim_restaurant", restaurant_id |-> rid, owner_id |-> owner_id]
        /\ IF rid \notin RestaurantIds
           THEN /\ error' = "ServiceNotFound"
                /\ UNCHANGED ownership
           ELSE /\ ownership' = [ownership EXCEPT ![rid].claimed_by_owner_id = <<owner_id>>]
                /\ error' = Null
        /\ pc' = IF error' = Null THEN "respond" ELSE "raised"
        /\ UNCHANGED <<assistant, sessions, favorites, review_table, next_review_id, photos>>

\* claim_restaurant
ClaimRestaurant ==
    \E rid \in RESTAURANT_ARGS, owner_id \in OWNERS :
        /\ pc = "idle"
        /\ call' = [op |-> "claim_restaurant", restaurant_id |-> rid, owner_id |-> owner_id]
        /\ IF rid \notin RestaurantIds
           THEN /\ error' = "ServiceNotFound"
                /\ UNCHANGED ownership
           ELSE IF ownership[rid].claimed_by_owner_id # NO_ID
           THEN /\ error' = "ServiceConflict"
                /\ UNCHANGED ownership
           ELSE /\ ownership' = [ownership EXCEPT ![rid].claimed_by_owner_id = <<owner_id>>]
                /\ error' = Null
        /\ pc' = IF error' = Null THEN "respond" ELSE "raised"
        /\ UNCHANGED <<assistant, sessions, favorites, review_table, next_review_id, photos>>

ClaimsNext == ClaimRestaurant \/ ServiceReturn

SpecClaims == ClaimsInit /\ [][ClaimsNext]_vars

(***************************************************************************)
(* SpecRace: two owners call claim_restaurant side by side, each in its    *)
(* own session.  The steps of a call are the SELECT of the restaurant,     *)
(* the checks on the loaded object, and the commit of the assignment.      *)
(***************************************************************************)
\* the owners whose calls run side by side
RACING_OWNERS == {1, 2}

\* a call of claim_restaurant in its session: where it is, its restaurant_id argument,
\* whether the SELECT found the row, the claimed_by_owner_id of the loaded object, and
\* the exception it raised
Session(at, restaurant_id, found, seen, raised) ==
    [pc |-> at, restaurant_id |-> restaurant_id, found |-> found, seen |-> seen,
     error |-> raised]

RaceInit ==
    /\ restaurants = Take(ALL_RESTAURANTS, MaxRestaurants)
    /\ AssistantIdle
    /\ favorites = EmptyBag
    /\ review_table = {}
    /\ next_review_id = 1
    /\ photos = EmptyBag
    /\ call = NO_CALL
    /\ ownership \in [RestaurantIds -> {Ownership(NO_ID, c) : c \in {NO_ID, <<3>>}}]
    /\ sessions \in [RACING_OWNERS -> {Session("start", rid, FALSE, NO_ID, Null) :
                                            rid \in RESTAURANT_ARGS}]

\* lines 157-159: the SELECT loads the row as the database has it at that moment
SelectRestaurant(o) ==
    LET rid == sessions[o].restaurant_id
    IN /\ sessions[o].pc = "start"
       /\ sessions' = [sessions EXCEPT ![o] =
                        Session("selected", rid, rid \in RestaurantIds,
                                IF rid \in RestaurantIds THEN ownership[rid].claimed_by_owner_id
                                ELSE NO_ID,
                                Null)]
       /\ UNCHANGED <<assistant, pc, error, favorites, review_table, next_review_id, ownership, photos, call>>

\* lines 161-164: the checks on the loaded object
CheckUnclaimed(o) ==
    /\ sessions[o].pc = "selected"
    /\ sessions' = [sessions EXCEPT
                        ![o].pc = IF sessions[o].found /\ sessions[o].seen = NO_ID
                                  THEN "checked" ELSE "raised",
                        ![o].error = IF ~sessions[o].found THEN "ServiceNotFound"
                                     ELSE IF sessions[o].seen # NO_ID THEN "ServiceConflict"
                                     ELSE Null]
    /\ UNCHANGED <<assistant, pc, error, favorites, review_table, next_review_id, ownership, photos, call>>

\* lines 166-173: the assignment is committed, UPDATE ... WHERE id = restaurant_id, and
\* the response is returned
CommitClaim(o) ==
    LET rid == sessions[o].restaurant_id
    IN /\ sessions[o].pc = "checked"
       /\ ownership' = [ownership EXCEPT ![rid].claimed_by_owner_id = <<o>>]
       /\ sessions' = [sessions EXCEPT ![o].pc = "respond"]
       /\ UNCHANGED <<assistant, pc, error, favorites, review_table, next_review_id, photos, call>>

\* db.commit() raises: a database that serialises the transactions refuses the write of
\* a row that another session changed since this session read it
CommitRefused(o) ==
    LET rid == sessions[o].restaurant_id
    IN /\ sessions[o].pc = "checked"
       /\ ownership[rid].claimed_by_owner_id # sessions[o].seen
       /\ sessions' = [sessions EXCEPT ![o].pc = "raised", ![o].error = "OperationalError"]
       /\ UNCHANGED <<assistant, pc, error, favorites, review_table, next_review_id, ownership, photos, call>>

RaceNext ==
    \E o \in RACING_OWNERS :
        \/ SelectRestaurant(o)
        \/ CheckUnclaimed(o)
        \/ CommitClaim(o)
        \/ CommitRefused(o)

SpecRace == RaceInit /\ [][RaceNext]_vars

(***************************************************************************)
(* SpecPhotos: upload_photos.                                              *)
(***************************************************************************)
ALLOWED_EXTENSIONS == {".jpg", ".jpeg", ".png", ".webp"}
ALLOWED_MIME_TYPES == {"image/jpeg", "image/png", "image/webp"}
MAX_PHOTO_BYTES == 10 * 1024 * 1024
MAX_PHOTOS_TOTAL == 5

\* an UploadFile: its filename, its content type and the length of what read() returns
UploadFile(filename, content_type, size) ==
    [filename |-> filename, content_type |-> content_type, size |-> size]

JpegFile == UploadFile("photo.jpg", "image/jpeg", 4)
PngFile == UploadFile("menu.v2.PNG", "image/png", 4)
GifFile == UploadFile("photo.gif", "image/gif", 4)
NamelessFile == UploadFile("", "image/jpeg", 4)
MislabelledFile == UploadFile("photo.webp", "text/html", 4)
HugeFile == UploadFile("photo.jpeg", "image/jpeg", MAX_PHOTO_BYTES + 1)
BareNameFile == UploadFile("photo", "image/jpeg", 4)

\* n files that pass every check
GoodFiles(n) == [i \in 1..n |-> IF i % 2 = 1 THEN JpegFile ELSE PngFile]

\* the file lists a caller uploads
FILE_LISTS ==
    {GoodFiles(n) : n \in 0..(MAX_PHOTOS_TOTAL + 1)} \cup
    {<<JpegFile, GifFile>>, <<NamelessFile>>, <<JpegFile, PngFile, MislabelledFile>>,
     <<HugeFile, JpegFile>>, <<BareNameFile>>}

\* the decoded tokens a caller presents: token_type and sub, "" when the key is missing
TOKEN_PAYLOADS ==
    {[token_type |-> t, sub |-> s] : t \in {"user", "owner"}, s \in {"1", "2"}}
        \cup {[token_type |-> "user", sub |-> "abc"], [token_type |-> "owner", sub |-> "999999"],
              [token_type |-> "admin", sub |-> "1"], [token_type |-> "", sub |-> ""]}

RECURSIVE DecimalValue(_)
DecimalValue(s) ==
    IF Len(s) = 0 THEN 0
    ELSE 10 * DecimalValue(SubSeq(s, 1, Len(s) - 1)) + (IndexIn(Char(s, Len(s)), Digits) - 1)

\* int(subject): <<n>> for a string of decimal digits, <<>> when int raises ValueError
ParseInt(subject) ==
    IF Len(subject) > 0 /\ \A i \in 1..Len(subject) : IsDigit(Char(subject, i))
    THEN <<DecimalValue(subject)>>
    ELSE <<>>

\* f".{filename.rsplit('.', 1)[-1].lower()}" if "." in filename else ""
Extension(filename) ==
    IF ~Contains(filename, ".") THEN ""
    ELSE LET last == CHOOSE i \in 1..Len(filename) :
                        /\ Char(filename, i) = "."
                        /\ \A j \in (i + 1)..Len(filename) : Char(filename, j) # "."
         IN "." \o Lower(Slice(filename, last + 1, Len(filename)))

\* whether the loop body raises ServiceBadRequest for the file
FileRejected(f) ==
    \/ f.filename = ""
    \/ Extension(f.filename) \notin ALLOWED_EXTENSIONS
    \/ f.content_type \notin ALLOWED_MIME_TYPES
    \/ f.size > MAX_PHOTO_BYTES

\* how many files the loop adds and flushes before it raises, Len(files) when it does not
AcceptedPrefix(files) ==
    IF \E i \in 1..Len(files) : FileRejected(files[i])
    THEN (CHOOSE i \in 1..Len(files) :
            FileRejected(files[i]) /\ \A j \in 1..(i - 1) : ~FileRejected(files[j])) - 1
    ELSE Len(files)

\* AcceptedPrefix and ParseInt, tabulated for the file lists and the subjects of the model
AcceptedPrefixOf == [files \in FILE_LISTS |-> AcceptedPrefix(files)]
SubjectId == [s \in {t.sub : t \in TOKEN_PAYLOADS} |-> ParseInt(s)]

\* ResolveUploader without the comparison with the restaurant's creator and owner
ResolveUploaderOfAnyRestaurant(restaurant, token_payload) ==
    LET id == SubjectId[token_payload.sub]
    IN IF token_payload.token_type = "user"
       THEN IF id = <<>> \/ id[1] \notin USERS
            THEN [error |-> "ServiceUnauthorized", user_id |-> NO_ID, owner_id |-> NO_ID]
            ELSE [error |-> Null, user_id |-> id, owner_id |-> NO_ID]
       ELSE IF token_payload.token_type = "owner"
       THEN IF id = <<>> \/ id[1] \notin OWNERS
            THEN [error |-> "ServiceUnauthorized", user_id |-> NO_ID, owner_id |-> NO_ID]
            ELSE [error |-> Null, user_id |-> NO_ID, owner_id |-> id]
       ELSE [error |-> "ServiceUnauthorized", user_id |-> NO_ID, owner_id |-> NO_ID]

\* lines 282-312: the uploader the token stands for, or the exception raised
ResolveUploader(restaurant, token_payload) ==
    LET id == SubjectId[token_payload.sub]
    IN IF token_payload.token_type = "user"
       THEN IF id = <<>> \/ id[1] \notin USERS
            THEN [error |-> "ServiceUnauthorized", user_id |-> NO_ID, owner_id |-> NO_ID]
            ELSE IF restaurant.created_by_user_id # id
            THEN [error |-> "ServiceForbidden", user_id |-> NO_ID, owner_id |-> NO_ID]
            ELSE [error |-> Null, user_id |-> id, owner_id |-> NO_ID]
       ELSE IF token_payload.token_type = "owner"
       THEN IF id = <<>> \/ id[1] \notin OWNERS
            THEN [error |-> "ServiceUnauthorized", user_id |-> NO_ID, owner_id |-> NO_ID]
            ELSE IF restaurant.claimed_by_owner_id # id
            THEN [error |-> "ServiceForbidden", user_id |-> NO_ID, owner_id |-> NO_ID]
            ELSE [error |-> Null, user_id |-> NO_ID, owner_id |-> id]
       ELSE [error |-> "ServiceUnauthorized", user_id |-> NO_ID, owner_id |-> NO_ID]

RestaurantPhoto(rid, by_user_id, by_owner_id) ==
    [restaurant_id |-> rid, uploaded_by_user_id |-> by_user_id, uploaded_by_owner_id |-> by_owner_id]

\* select(func.count()).where(RestaurantPhoto.restaurant_id == restaurant_id)
PhotoCount(table, rid) ==
    LET rows == {p \in BagToSet(table) : p.restaurant_id = rid}
    IN IF rows = {} THEN 0 ELSE BagCardinality([p \in rows |-> CopiesIn(p, table)])

\* n copies of a row
Copies(row, n) == IF n = 0 THEN EmptyBag ELSE [r \in {row} |-> n]

\* the restaurants the photos are uploaded for: one created by a user and claimed by an
\* owner, one that only an owner holds, the others created by a user and unclaimed
PhotoOwnership(rid) ==
    IF rid = Head(restaurants).id THEN Ownership(<<1>>, <<2>>)
    ELSE IF rid = restaurants[Len(restaurants)].id /\ Len(restaurants) = MaxRestaurants
    THEN Ownership(NO_ID, <<1>>)
    ELSE Ownership(<<2>>, NO_ID)

PhotosInit ==
    /\ restaurants = Take(ALL_RESTAURANTS, MaxRestaurants)
    /\ AssistantIdle
    /\ favorites = EmptyBag
    /\ review_table = {}
    /\ next_review_id = 1
    /\ photos = EmptyBag
    /\ call = NO_CALL
    /\ sessions = NO_SESSIONS
    /\ ownership = [rid \in RestaurantIds |-> PhotoOwnership(rid)]

\* UploadOutcome without the count of the photos the restaurant has
UploadOutcomeIgnoringExisting(rid, files, token_payload) ==
    IF rid \notin RestaurantIds
    THEN [error |-> "ServiceNotFound", rows |-> EmptyBag]
    ELSE LET uploader == ResolveUploader(ownership[rid], token_payload)
         IN IF uploader.error # Null
            THEN [error |-> uploader.error, rows |-> EmptyBag]
            ELSE IF Len(files) = 0 \/ Len(files) > MAX_PHOTOS_TOTAL
            THEN [error |-> "ServiceBadRequest", rows |-> EmptyBag]
            ELSE [error |-> IF AcceptedPrefixOf[files] < Len(files) THEN "ServiceBadRequest" ELSE Null,
                  rows |-> Copies(RestaurantPhoto(rid, uploader.user_id, uploader.owner_id),
                                  AcceptedPrefixOf[files])]

\* what a call of upload_photos raises and the rows it leaves in the session
UploadOutcome(rid, files, token_payload) ==
    IF rid \notin RestaurantIds
    THEN [error |-> "ServiceNotFound", rows |-> EmptyBag]
    ELSE LET uploader == ResolveUploader(ownership[rid], token_payload)
         IN IF uploader.error # Null
            THEN [error |-> uploader.error, rows |-> EmptyBag]
            ELSE IF Len(files) = 0 \/ Len(files) > MAX_PHOTOS_TOTAL
            THEN [error |-> "ServiceBadRequest", rows |-> EmptyBag]
            ELSE IF PhotoCount(photos, rid) + Len(files) > MAX_PHOTOS_TOTAL
            THEN [error |-> "ServiceBadRequest", rows |-> EmptyBag]
            ELSE [error |-> IF AcceptedPrefixOf[files] < Len(files) THEN "ServiceBadRequest" ELSE Null,
                  rows |-> Copies(RestaurantPhoto(rid, uploader.user_id, uploader.owner_id),
                                  AcceptedPrefixOf[files])]

\* upload_photos.  When the loop raises after it has flushed rows, the rows are in the
\* session and not committed: they are lost when the caller closes the session and stay
\* when the caller goes on with it.  The call record keeps what the loop did for its
\* batch: the files it wrote to _photos_dir (write_bytes, never removed) and the rows it
\* added to the session and flushed, one of each for every file before the rejected one.
UploadPhotos ==
    \E rid \in RESTAURANT_ARGS, files \in FILE_LISTS, token_payload \in TOKEN_PAYLOADS :
        LET outcome == UploadOutcome(rid, files, token_payload)
        IN /\ pc = "idle"
           /\ call' = [op |-> "upload_photos", restaurant_id |-> rid, files |-> files,
                       token_payload |-> token_payload,
                       written |-> PhotoCount(outcome.rows, rid),
                       added |-> PhotoCount(outcome.rows, rid)]
           /\ error' = outcome.error
           /\ \/ photos' = photos (+) outcome.rows
              \/ /\ outcome.error # Null
                 /\ photos' = photos
           /\ pc' = IF outcome.error = Null THEN "respond" ELSE "raised"
           /\ UNCHANGED <<assistant, sessions, favorites, review_table, next_review_id, ownership>>

PhotosNext == UploadPhotos \/ ServiceReturn

SpecPhotos == PhotosInit /\ [][PhotosNext]_vars
(***************************************************************************)
(* Properties of the ranker (SpecRank).                                    *)
(***************************************************************************)
RankedRestaurants == {ranked[i].restaurant : i \in 1..Len(ranked)}

\* C2: the ranked list is a permutation of the fetched candidates, and every entry's key
\* (score, average_rating, review_count) is greater than or equal to the key of the entry
\* after it.
C2_RankedDescendingPermutation ==
    pc = "ranked" =>
        LET fetched == FetchCandidates(restaurants, intent)
        IN /\ Len(ranked) = Len(fetched)
           /\ RankedRestaurants = Range(fetched)
           /\ \A i \in 1..Len(ranked) :
                ranked[i] = RankedRow(ranked[i].restaurant, reviews, intent, preferences)
           /\ \A i \in 1..(Len(ranked) - 1) : ~KeyLess(ranked[i], ranked[i + 1])

\* C2 witness: three candidates were ranked, the keys are not all equal and the ranked
\* order is not the order the catalogue delivered them in.
C2_Witness ==
    /\ pc = "ranked"
    /\ Len(ranked) = 3
    /\ KeyLess(ranked[3], ranked[1])
    /\ <<ranked[1].restaurant, ranked[2].restaurant, ranked[3].restaurant>>
            # FetchCandidates(restaurants, intent)

\* C3: the ranked sequence is the same for every order in which the catalogue may deliver
\* the same rows, also when two candidates tie on (score, average_rating, review_count).
C3_RankingIndependentOfDeliveryOrder ==
    pc = "ranked" =>
        \A order \in DeliveryOrders(restaurants) :
            SearchAndRankRestaurants(order, reviews, intent, preferences) = ranked

ExplicitCuisineMatch(restaurant) ==
    \E i \in 1..Len(intent.cuisines) :
        Contains(Lower(OrEmpty(restaurant.cuisine_type)), Lower(intent.cuisines[i]))

SavedCuisineMatch(restaurant) ==
    \E i \in 1..Len(preferences.cuisines) :
        Contains(Lower(OrEmpty(restaurant.cuisine_type)), Lower(preferences.cuisines[i]))

\* what the cuisine lists add to the score of a ranked row: its score less the score of
\* the same restaurant with the cuisine lists of intent and preferences emptied
CuisineContribution(row) ==
    row.score
        - ScoreRestaurant(row.restaurant, row.average_rating, row.review_count,
                          [intent EXCEPT !.cuisines = <<>>],
                          [preferences EXCEPT !.cuisines = <<>>]).score

CountOf(reasons, reason) == Cardinality({i \in 1..Len(reasons) : reasons[i] = reason})

\* C4: the cuisine bonuses never stack.  A restaurant whose cuisine matches a requested
\* cuisine gets exactly +4 and the single reason of the request, also when a saved cuisine
\* matches too; the +2 of a saved cuisine applies only when no requested cuisine matches.
C4_CuisineBonusNeverStacks ==
    pc = "ranked" =>
        \A i \in 1..Len(ranked) :
            LET row == ranked[i]
                explicit == ExplicitCuisineMatch(row.restaurant)
                saved == SavedCuisineMatch(row.restaurant)
            IN /\ explicit =>
                    /\ CuisineContribution(row) = 4000
                    /\ CountOf(row.reasons, "Matches your cuisine request") = 1
                    /\ CountOf(row.reasons, "Matches your saved cuisine preferences") = 0
               /\ (~explicit /\ saved) =>
                    /\ CuisineContribution(row) = 2000
                    /\ CountOf(row.reasons, "Matches your cuisine request") = 0
                    /\ CountOf(row.reasons, "Matches your saved cuisine preferences") = 1
               /\ (~explicit /\ ~saved) =>
                    /\ CuisineContribution(row) = 0
                    /\ CountOf(row.reasons, "Matches your cuisine request") = 0
                    /\ CountOf(row.reasons, "Matches your saved cuisine preferences") = 0

\* C4 witness: a ranked restaurant matches a requested cuisine and a saved cuisine.
C4_Witness ==
    /\ pc = "ranked"
    /\ \E i \in 1..Len(ranked) :
        ExplicitCuisineMatch(ranked[i].restaurant) /\ SavedCuisineMatch(ranked[i].restaurant)

HasStructuredSearchFilter == Len(intent.cuisines) > 0 \/ Truthy(intent.location)

\* C10: when the intent has a cuisine or a location, the candidates that were fetched and
\* ranked are the ones fetched for the same intent with any other keywords list: the
\* keyword filter is not applied.
C10_KeywordsIgnoredWithStructuredFilter ==
    (pc = "ranked" /\ HasStructuredSearchFilter) =>
        \A k \in KEYWORD_LISTS :
            RankedRestaurants = Range(FetchCandidates(restaurants, [intent EXCEPT !.keywords = k]))

\* C10 witness: a cuisine was asked for together with a keyword that no restaurant
\* matches, and the restaurants of that cuisine were ranked.
C10_Witness ==
    /\ pc = "ranked"
    /\ Len(intent.cuisines) > 0
    /\ intent.keywords = <<"nomatch">>
    /\ Len(ranked) > 0
    /\ \A i \in 1..Len(ranked) : ExplicitCuisineMatch(ranked[i].restaurant)


(***************************************************************************)
(* Properties of _normalize_intent (SpecNorm).                             *)
(***************************************************************************)
\* C9: _normalize_intent is idempotent: normalising the normalised intent gives the
\* normalised intent again, field for field.
C9_NormalizeIdempotent ==
    pc = "normalized" => renormalized = normalized

(***************************************************************************)
(* Properties of a turn (Spec).                                            *)
(***************************************************************************)
\* the call has ended, by a response or by an exception
Ended == pc \in {"respond", "raised"}

\* _handle_attribute_followup has decided what the turn is
Decided == followup.route # Null

\* C1: the call raises only for a blank message, and then ServiceBadRequest; for a
\* non-blank message it returns a response whose reply is a non-empty string, whatever
\* the providers do.
C1_FailsOnlyOnBlankMessage ==
    /\ (Ended /\ clean_message = "") => (pc = "raised" /\ error = "ServiceBadRequest")
    /\ (Ended /\ clean_message # "") => (pc = "respond" /\ error = Null /\ Strip(reply) # "")

\* C5: in a fresh search whose intent names a cuisine and whose filtered query matches no
\* restaurant, the ranked list is empty, no restaurant is suggested and, when no LLM key is
\* set, the reply is the fixed text that asks for cuisine, budget or location.
C5_NoFallbackForExplicitCuisine ==
    (/\ pc \in {"enrich", "compose", "respond"}
     /\ Len(intent.cuisines) > 0
     /\ Len(SelectMatching(restaurants, intent)) = 0)
        => /\ ranked = <<>>
           /\ pc \in {"compose", "respond"} => suggestions = <<>>
           /\ (pc = "respond" /\ ~settings.llm_api_key) => reply = NO_MATCH_REPLY

\* C5 witness: a Korean restaurant was asked for, the catalogue has none, no LLM key is
\* set and the turn answered with the fixed text.
C5_Witness ==
    /\ pc = "respond"
    /\ followup.route = "FRESH_SEARCH"
    /\ intent.cuisines = <<"korean">>
    /\ Len(restaurants) > 0
    /\ ~settings.llm_api_key
    /\ suggestions = <<>>
    /\ reply = NO_MATCH_REPLY

\* the numbered list of the most recent assistant turn
ListedNames == ExtractRankedNames(LatestContent(conversation_history, "assistant"))

\* the 0-based indexes below k that an ordinal word of the message denotes
OrdinalIndexes(k) ==
    {ORDINAL_HINTS[h][2] : h \in {g \in 1..Len(ORDINAL_HINTS) :
                                    /\ Contains(lowered_message, ORDINAL_HINTS[g][1])
                                    /\ ORDINAL_HINTS[g][2] < k}}

NamesListed == \E i \in 1..Len(ListedNames) : Contains(lowered_message, Lower(ListedNames[i]))

InCatalog(name) == \E i \in 1..Len(restaurants) : Lower(restaurants[i].name) = Lower(Strip(name))

\* C6: when the most recent assistant turn holds a numbered list of k names and the
\* message has an hours keyword and an ordinal word for an index below k, names none of
\* the listed restaurants, and the restaurants the ordinals denote are in the catalogue,
\* the turn is a follow-up answer with topic hours about a listed name that an ordinal of
\* the message denotes, and no component of the search pipeline is called in the turn.
C6_OrdinalFollowupResolution ==
    (/\ Decided
     /\ AnyTokenIn(lowered_message, HOURS_FOLLOWUP_TOKENS)
     /\ OrdinalIndexes(Len(ListedNames)) # {}
     /\ ~NamesListed
     /\ \A i \in OrdinalIndexes(Len(ListedNames)) : InCatalog(ListedNames[i + 1]))
        => /\ followup.route = "FOLLOWUP_ANSWER"
           /\ followup.followup_type = "hours"
           /\ \E i \in OrdinalIndexes(Len(ListedNames)) :
                Lower(followup.restaurant.name) = Lower(Strip(ListedNames[i + 1]))
           /\ invoked = {}
           /\ pc \in {"followup", "respond", "raised"}
           /\ pc = "respond" =>
                /\ Len(suggestions) = 1
                /\ suggestions[1].id = followup.restaurant.id
                /\ suggestions[1].reason = "Open-hours details for your selected restaurant"

\* C6 witness: after a list of three names, "is the 2nd open late" was answered about
\* the second listed name, Taco Town, with topic hours.
C6_Witness ==
    /\ pc = "respond"
    /\ message = "is the 2nd open late"
    /\ Len(ListedNames) = 3
    /\ followup.route = "FOLLOWUP_ANSWER"
    /\ followup.followup_type = "hours"
    /\ followup.restaurant.name = "Taco Town"
    /\ ListedNames[2] = "Taco Town"
    /\ invoked = {}

\* whether t occurs in s as a word: not inside a longer run of letters and digits
ContainsWord(s, t) ==
    \E i \in 1..(Len(s) - Len(t) + 1) :
        /\ SubSeq(s, i, i + Len(t) - 1) = t
        /\ (i = 1 \/ ~IsWordChar(Char(s, i - 1)))
        /\ (i + Len(t) - 1 = Len(s) \/ ~IsWordChar(Char(s, i + Len(t))))

HasSearchVerb == \E t \in NEW_SEARCH_HINTS : ContainsWord(lowered_message, t)
HasPronounWord == \E t \in PRONOUN_FOLLOWUP_TOKENS : ContainsWord(lowered_message, t)
HasOrdinalWord ==
    \E h \in 1..Len(ORDINAL_HINTS) : ContainsWord(lowered_message, ORDINAL_HINTS[h][1])

\* C7: a message with a search verb and with no pronoun word and no ordinal word is never
\* handled as a follow-up: the turn is a fresh search, whatever the history holds and
\* whether or not the message has a topic keyword.
C7_NewSearchBypassesFollowup ==
    (Decided /\ HasSearchVerb /\ ~HasPronounWord /\ ~HasOrdinalWord)
        => followup.route = "FRESH_SEARCH"

\* the message has a pronoun token and no other cue to a restaurant of the context: no
\* name of the context, no ordinal, no "last", "top" or "best"
PronounOnlyCue ==
    /\ AnyTokenIn(lowered_message, PRONOUN_FOLLOWUP_TOKENS)
    /\ \A i \in 1..Len(followup.ranked_names) :
            ~Contains(lowered_message, Lower(followup.ranked_names[i]))
    /\ \A h \in 1..Len(ORDINAL_HINTS) : ~Contains(lowered_message, ORDINAL_HINTS[h][1])
    /\ \A t \in {"last", "top", "best"} : ~Contains(lowered_message, t)

HasContactKeyword == AnyTokenIn(lowered_message, CONTACT_FOLLOWUP_TOKENS)

\* the turn answers about the restaurant of that name with topic contact
AnswersContactOf(name) ==
    /\ followup.route = "FOLLOWUP_ANSWER"
    /\ followup.followup_type = "contact"
    /\ Lower(followup.restaurant.name) = Lower(Strip(name))
    /\ pc = "respond" =>
        /\ Len(suggestions) = 1
        /\ suggestions[1].id = followup.restaurant.id
        /\ suggestions[1].reason = "Contact details for your selected restaurant"

\* the turn answers with the clarification that lists up to three names of the context
ClarifiesAmongContext ==
    /\ followup.route = "FOLLOWUP_CLARIFY"
    /\ pc = "respond" =>
        /\ reply = "I can help with details, but I need the target restaurant. Do you mean: "
                    \o JoinStrings(Take(followup.ranked_names, 3), ", ")
                    \o "? You can say first/second or the exact name."
        /\ Len(suggestions) <= 3

\* C8 as stated: a message whose only cue is a pronoun and that has a contact keyword
\* resolves to the restaurant of a one-restaurant context with topic contact, and with
\* two or more restaurants in the context the turn returns the clarification.
C8_PronounClarifiesAmongSeveral ==
    (Decided /\ PronounOnlyCue /\ HasContactKeyword)
        => /\ (Len(followup.ranked_names) = 1 /\ InCatalog(followup.ranked_names[1]))
                => AnswersContactOf(followup.ranked_names[1])
           /\ Len(followup.ranked_names) >= 2 => ClarifiesAmongContext

\* C8 amended: a message whose only cue is a pronoun, with a contact keyword and no hours
\* or location keyword, resolves to the first restaurant of the context however many
\* restaurants the context holds; the turn answers about it with topic contact when it is
\* in the catalogue, and returns the clarification when it is not.
C8_PronounResolvesToFirstOfContext ==
    (/\ Decided
     /\ PronounOnlyCue
     /\ HasContactKeyword
     /\ ~AnyTokenIn(lowered_message, HOURS_FOLLOWUP_TOKENS \cup LOCATION_FOLLOWUP_TOKENS)
     /\ Len(followup.ranked_names) >= 1)
        => IF InCatalog(followup.ranked_names[1])
           THEN AnswersContactOf(followup.ranked_names[1])
           ELSE ClarifiesAmongContext

\* C8 witness: "what's its phone number" after a list of three names was answered about
\* the first of them.
C8_Witness ==
    /\ pc = "respond"
    /\ message = "what's its phone number"
    /\ Len(followup.ranked_names) = 3
    /\ followup.route = "FOLLOWUP_ANSWER"
    /\ followup.followup_type = "contact"
    /\ followup.restaurant.name = followup.ranked_names[1]

\* the three outcomes of the follow-up resolver
ROUTES == {"FOLLOWUP_ANSWER", "FOLLOWUP_CLARIFY", "FRESH_SEARCH"}

\* the components of the fresh-search pipeline
PIPELINE ==
    {"_extract_intent", "_search_and_rank_restaurants", "_fetch_tavily_context", "_build_reply"}

IsFollowupTurn == followup.route \in {"FOLLOWUP_ANSWER", "FOLLOWUP_CLARIFY"}

\* C11 as stated: a turn with a non-blank message that has ended has exactly one of the
\* three outcomes, and in a turn whose outcome is FOLLOWUP_ANSWER or FOLLOWUP_CLARIFY
\* neither _search_and_rank_restaurants nor the enricher nor the composer was called.
C11_FollowupsNeverSearch ==
    (Ended /\ clean_message # "")
        => /\ followup.route \in ROUTES
           /\ IsFollowupTurn => invoked \cap PIPELINE = {}

\* C11 amended: a turn with a non-blank message that has ended has exactly one of the
\* three outcomes; in a follow-up turn the intent extractor, the enricher and the composer
\* are never called, and _search_and_rank_restaurants is called only to reconstruct the
\* context, which happens only when the most recent assistant turn names no restaurant
\* and there is an earlier user turn; a fresh search that responds called all four.
C11_FollowupsBypassPipeline ==
    (Ended /\ clean_message # "")
        => /\ followup.route \in ROUTES
           /\ IsFollowupTurn =>
                /\ invoked \subseteq {"_search_and_rank_restaurants"}
                /\ ranked = <<>> /\ tavily_context = <<>> /\ intent = EMPTY_INTENT
                /\ "_search_and_rank_restaurants" \in invoked =>
                    /\ ListedNames = <<>>
                    /\ \A i \in 1..Len(restaurants) :
                        ~Contains(Lower(LatestContent(conversation_history, "assistant")),
                                  Lower(restaurants[i].name))
                    /\ \E i \in 1..Len(conversation_history) : conversation_history[i].role = "user"
           /\ (followup.route = "FRESH_SEARCH" /\ pc = "respond") => invoked = PIPELINE

\* C11 witness: "call them" after the single user turn "mexican food" was answered by a
\* clarification whose candidate names came from a run of _search_and_rank_restaurants.
C11_Witness ==
    /\ pc = "respond"
    /\ message = "call them"
    /\ followup.route = "FOLLOWUP_CLARIFY"
    /\ invoked = {"_search_and_rank_restaurants"}
    /\ Len(followup.ranked_names) >= 2

(***************************************************************************)
(* Claims about _extract_intent and _merge_intent_with_message_priority    *)
(* (SpecIntent).                                                           *)
(***************************************************************************)
INTENT_KEYS ==
    {"cuisines", "price_range", "location", "dietary_needs", "ambiance", "keywords", "occasion"}

\* a list field in normal form: at most cap entries, each lower-case, trimmed and
\* non-empty, no entry twice
NormalList(values, cap) ==
    /\ Len(values) <= cap
    /\ \A i \in 1..Len(values) : values[i] # "" /\ values[i] = Lower(Strip(values[i]))
    /\ \A i, j \in 1..Len(values) : i # j => values[i] # values[j]

InNormalForm(x) ==
    /\ DOMAIN x = INTENT_KEYS
    /\ NormalList(x.cuisines, LIST_CAP)
    /\ NormalList(x.dietary_needs, LIST_CAP)
    /\ NormalList(x.ambiance, LIST_CAP)
    /\ NormalList(x.keywords, KEYWORD_CAP)
    /\ x.price_range \in PRICE_SET \cup {Null}

\* _extract_intent has returned, on the heuristic-only path or on the merged path
IntentReturned == pc = "intent"
MergedPath == IntentReturned /\ ~llm_intent.none

\* C12: every intent _extract_intent returns, on the heuristic-only path and on the merged
\* path, is in normal form: seven keys, list fields capped (6, keywords 8), entries
\* lower-case, trimmed, non-empty and without duplicates, price_range a tier or null.
C12_ExtractedIntentInNormalForm == IntentReturned => InNormalForm(intent)

\* C19 as stated: in the merged intent each list field (cuisines, dietary_needs, ambiance)
\* is the heuristic list when that is non-empty and the LLM list otherwise, and each scalar
\* field (price_range, location, occasion) is the heuristic value when that is non-null
\* and the LLM value otherwise.
C19_MergedFieldIsHeuristicElseLlm ==
    MergedPath =>
        /\ \A k \in {"cuisines", "dietary_needs", "ambiance"} :
              intent[k] = IF heuristic_intent[k] # <<>> THEN heuristic_intent[k]
                          ELSE llm_intent.intent[k]
        /\ \A k \in {"price_range", "location", "occasion"} :
              intent[k] = IF heuristic_intent[k] # Null THEN heuristic_intent[k]
                          ELSE llm_intent.intent[k]

\* C19 amended: in the merged intent each list field is the first six entries of the
\* heuristic list when that is non-empty, and otherwise the first six entries of the LLM
\* list with repeated entries dropped; each scalar field is the heuristic value when that
\* is non-null, and otherwise the LLM value, an empty LLM string counting as null.  No LLM
\* value replaces a non-empty heuristic value.
C19_HeuristicPrecedenceUpToNormalForm ==
    MergedPath =>
        /\ \A k \in {"cuisines", "dietary_needs", "ambiance"} :
              intent[k] = IF heuristic_intent[k] # <<>> THEN Take(heuristic_intent[k], LIST_CAP)
                          ELSE Take(CleanList(llm_intent.intent[k]), LIST_CAP)
        /\ \A k \in {"price_range", "location", "occasion"} :
              intent[k] = IF heuristic_intent[k] # Null THEN heuristic_intent[k]
                          ELSE IF llm_intent.intent[k] = "" THEN Null
                          ELSE llm_intent.intent[k]

\* a merge in which both passes found a cuisine list and a location, and they differ
C19_Witness ==
    /\ MergedPath
    /\ heuristic_intent.cuisines # <<>>
    /\ llm_intent.intent.cuisines \notin {<<>>, heuristic_intent.cuisines}
    /\ intent.cuisines = heuristic_intent.cuisines
    /\ heuristic_intent.location # Null
    /\ llm_intent.intent.location \notin {Null, "", heuristic_intent.location}
    /\ intent.location = heuristic_intent.location

\* C20: in the merged intent, keywords is the heuristic keywords followed by the LLM
\* keywords, deduplicated across the two lists and capped at 8, so a keyword both passes
\* found appears once, at its heuristic position.
C20_MergedKeywordsDeduplicated ==
    MergedPath =>
        intent.keywords = Take(CleanList(heuristic_intent.keywords \o llm_intent.intent.keywords),
                               KEYWORD_CAP)

(***************************************************************************)
(* Claims about the favorite service (SpecFavorites).                      *)
(***************************************************************************)
IsFavorite(uid, rid) == CopiesIn(Favorite(uid, rid), favorites) > 0

\* the favorites the step leaves as they were: every pair but (uid, rid)
OtherFavoritesKept(uid, rid) ==
    \A u \in USERS, r \in RESTAURANT_ARGS :
        <<u, r>> # <<uid, rid>> =>
            CopiesIn(Favorite(u, r), favorites') = CopiesIn(Favorite(u, r), favorites)

\* what the claim says of one call of add_favorite or remove_favorite
FavoriteCallAsClaimed ==
    LET uid == call'.user_id
        rid == call'.restaurant_id
        was == IsFavorite(uid, rid)
        now == CopiesIn(Favorite(uid, rid), favorites') > 0
        failed == error' # Null
    IN call'.op \in {"add_favorite", "remove_favorite"} =>
       /\ call'.op = "add_favorite" /\ rid \notin RestaurantIds => error' = "ServiceNotFound"
       /\ call'.op = "add_favorite" /\ rid \in RestaurantIds /\ ~was => error' = Null /\ now
       /\ call'.op = "add_favorite" /\ rid \in RestaurantIds /\ was => error' = "ServiceConflict"
       /\ call'.op = "remove_favorite" /\ was => error' = Null /\ ~now
       /\ call'.op = "remove_favorite" /\ ~was => error' = "ServiceNotFound"
       /\ failed => favorites' = favorites
       /\ OtherFavoritesKept(uid, rid)
       /\ \A u \in USERS, r \in RESTAURANT_ARGS : CopiesIn(Favorite(u, r), favorites') <= 1

\* C13: per (user, restaurant) pair the favorites are a two-state machine under any
\* sequence of add_favorite and remove_favorite calls: add on an absent pair makes it
\* present, remove on a present pair makes it absent, add on a present pair raises
\* ServiceConflict, remove on an absent pair raises ServiceNotFound, add for a restaurant
\* that does not exist raises ServiceNotFound; a failed call changes no favorite, no pair
\* has two records, and a call of one user changes no favorite of another user.
C13_FavoritesTwoStateMachine == [][FavoriteCallAsClaimed]_vars

\* a user failed to remove a favorite that only the other user holds, after that other
\* user had added it
C13_Witness ==
    /\ call.op = "remove_favorite"
    /\ error = "ServiceNotFound"
    /\ call.restaurant_id \in RestaurantIds
    /\ \E u \in USERS \ {call.user_id} : IsFavorite(u, call.restaurant_id)
    /\ ~IsFavorite(call.user_id, call.restaurant_id)

(***************************************************************************)
(* Claims about the review service (SpecReviews).                          *)
(***************************************************************************)
\* the reviews get_reviews_for_restaurant lists for a restaurant
ListedReviews(table, rid) == {r \in table : r.restaurant_id = rid}

OneReviewPerPair ==
    \A rid \in RESTAURANT_ARGS, uid \in USERS : Cardinality(ReviewsOfPair(rid, uid)) <= 1

\* what the claim says of one call of create_review
CreateReviewAsClaimed ==
    LET rid == call'.restaurant_id
        uid == call'.user_id
    IN call'.op = "create_review" =>
        /\ ReviewsOfPair(rid, uid) # {} => error' = "ServiceConflict" /\ review_table' = review_table
        /\ ReviewsOfPair(rid, uid) = {} /\ rid \in RestaurantIds =>
              /\ error' = Null
              /\ \E r \in review_table' \ review_table :
                    /\ r.restaurant_id = rid /\ r.user_id = uid
                    /\ r.rating = call'.rating /\ r.comment = call'.comment
                    /\ review_table' = review_table \cup {r}

\* C14: after any sequence of create_review, update_review and delete_review calls each
\* (user, restaurant) pair has at most one review; create_review for a pair that has a
\* review raises ServiceConflict and leaves that review's rating and comment as they
\* were, and a user's create_review succeeds whatever reviews other users hold of the
\* restaurant.
C14_OneReviewPerPair == [][OneReviewPerPair' /\ CreateReviewAsClaimed]_vars

\* a create_review was refused for a pair that has a review, of a restaurant both users
\* have reviewed
C14_Witness ==
    /\ call.op = "create_review"
    /\ error = "ServiceConflict"
    /\ \A uid \in USERS : ReviewsOfPair(call.restaurant_id, uid) # {}

\* what the claim says of one call of update_review or delete_review
AuthorOnlyAsClaimed ==
    LET found == ReviewsWithId(call'.review_id)
        review == CHOOSE r \in found : TRUE
    IN call'.op \in {"update_review", "delete_review"} =>
        /\ found = {} => error' = "ServiceNotFound" /\ review_table' = review_table
        /\ found # {} /\ review.user_id # call'.user_id =>
              /\ error' = "ServiceForbidden"
              /\ review_table' = review_table
              /\ review \in ListedReviews(review_table', review.restaurant_id)
        /\ found # {} /\ review.user_id = call'.user_id /\ call'.op = "update_review" =>
              /\ error' = Null
              /\ review_table' = (review_table \ {review}) \cup
                    {[review EXCEPT
                        !.rating = IF call'.rating = <<>> THEN review.rating ELSE call'.rating[1],
                        !.comment = IF call'.comment = Null THEN review.comment ELSE call'.comment]}
        /\ found # {} /\ review.user_id = call'.user_id /\ call'.op = "delete_review" =>
              /\ error' = Null
              /\ review_table' = review_table \ {review}

\* C15: only a review's author can change it: update_review and delete_review by another
\* user raise ServiceForbidden and leave the review unchanged and listed; with an unknown
\* review id they raise ServiceNotFound; a successful update_review changes the fields
\* supplied (rating and/or comment) and leaves the other field as it was.
C15_OnlyAuthorChangesReview == [][AuthorOnlyAsClaimed]_vars

\* an author's update_review that supplied a comment and no rating has succeeded on a
\* review whose rating is not the lowest one
C15_Witness ==
    /\ call.op = "update_review"
    /\ error = Null
    /\ call.rating = <<>>
    /\ call.comment # Null
    /\ \E r \in ReviewsWithId(call.review_id) :
          r.user_id = call.user_id /\ r.comment = call.comment /\ r.rating = MAX_RATING

(***************************************************************************)
(* Claims about claim_restaurant (SpecClaims).                             *)
(***************************************************************************)
\* what the claim says of one call of claim_restaurant
ClaimCallAsClaimed ==
    LET rid == call'.restaurant_id
    IN call'.op = "claim_restaurant" =>
        /\ rid \notin RestaurantIds => error' = "ServiceNotFound" /\ ownership' = ownership
        /\ rid \in RestaurantIds /\ ownership[rid].claimed_by_owner_id = NO_ID =>
              /\ error' = Null
              /\ ownership' = [ownership EXCEPT ![rid].claimed_by_owner_id = <<call'.owner_id>>]
        /\ rid \in RestaurantIds /\ ownership[rid].claimed_by_owner_id # NO_ID =>
              /\ error' = "ServiceConflict"
              /\ ownership' = ownership
        /\ error' = Null =>
              rid \in RestaurantIds /\ ownership[rid].claimed_by_owner_id = NO_ID

\* a claimed restaurant keeps its owner
ClaimIsFinal ==
    \A rid \in RestaurantIds :
        ownership[rid].claimed_by_owner_id # NO_ID =>
            ownership'[rid].claimed_by_owner_id = ownership[rid].claimed_by_owner_id

\* C16: claim_restaurant succeeds only for an existing restaurant whose
\* claimed_by_owner_id is null, and then sets it to the calling owner; for a restaurant
\* already claimed, by the caller or by another owner, it raises ServiceConflict and
\* leaves claimed_by_owner_id as it was; for an unknown restaurant it raises
\* ServiceNotFound.  Under any sequence of claim_restaurant calls a claimed_by_owner_id
\* that is not null never changes.
C16_ClaimOnlyUnclaimed == [][ClaimCallAsClaimed /\ ClaimIsFinal]_vars

\* a claim was refused for a restaurant the caller already holds, while another
\* restaurant is held by another owner
C16_Witness ==
    /\ call.op = "claim_restaurant"
    /\ error = "ServiceConflict"
    /\ ownership[call.restaurant_id].claimed_by_owner_id = <<call.owner_id>>
    /\ \E rid \in RestaurantIds :
          ownership[rid].claimed_by_owner_id \notin {NO_ID, <<call.owner_id>>}

(***************************************************************************)
(* Claims about concurrent claim_restaurant calls (SpecRace).              *)
(***************************************************************************)
\* the owners whose call returned a ClaimResponse for the restaurant
Claimants(rid) ==
    {o \in RACING_OWNERS : sessions[o].restaurant_id = rid /\ sessions[o].pc = "respond"}

\* every call has returned or raised
AllCallsEnded == \A o \in RACING_OWNERS : sessions[o].pc \in {"respond", "raised"}

\* C29: when two owners call claim_restaurant for the same unclaimed restaurant in
\* sessions of their own, with the read, the null check and the write interleaved in any
\* order, at most one call returns a ClaimResponse, and the owner of every ClaimResponse
\* is the claimed_by_owner_id stored for the restaurant when the calls have ended.
C29_AtMostOneConcurrentClaim ==
    \A rid \in RestaurantIds :
        /\ Cardinality(Claimants(rid)) <= 1
        /\ AllCallsEnded =>
            \A o \in Claimants(rid) : ownership[rid].claimed_by_owner_id = <<o>>

(***************************************************************************)
(* Claims about upload_photos (SpecPhotos).                                *)
(***************************************************************************)
\* the token is a user token of the user who created the restaurant, or an owner token
\* of the owner who claimed it
Authorised(rid, token_payload) ==
    \/ /\ token_payload.token_type = "user"
       /\ \E uid \in USERS :
             SubjectId[token_payload.sub] = <<uid>> /\ ownership[rid].created_by_user_id = <<uid>>
    \/ /\ token_payload.token_type = "owner"
       /\ \E oid \in OWNERS :
             SubjectId[token_payload.sub] = <<oid>> /\ ownership[rid].claimed_by_owner_id = <<oid>>

\* the token is a user or owner token of an existing user or owner
Identified(token_payload) ==
    \/ token_payload.token_type = "user" /\ \E uid \in USERS : SubjectId[token_payload.sub] = <<uid>>
    \/ token_payload.token_type = "owner" /\ \E oid \in OWNERS : SubjectId[token_payload.sub] = <<oid>>

\* every photo row names the creator or the claiming owner of its restaurant as uploader
UploadedByHolder(table) ==
    \A p \in BagToSet(table) :
        \/ /\ p.uploaded_by_user_id # NO_ID
           /\ p.uploaded_by_owner_id = NO_ID
           /\ p.uploaded_by_user_id = ownership[p.restaurant_id].created_by_user_id
        \/ /\ p.uploaded_by_owner_id # NO_ID
           /\ p.uploaded_by_user_id = NO_ID
           /\ p.uploaded_by_owner_id = ownership[p.restaurant_id].claimed_by_owner_id

\* what the claim says of one call of upload_photos
UploadAuthAsClaimed ==
    LET rid == call'.restaurant_id
        token_payload == call'.token_payload
    IN call'.op = "upload_photos" =>
        /\ rid \notin RestaurantIds => error' = "ServiceNotFound" /\ photos' = photos
        /\ rid \in RestaurantIds =>
              /\ error' = Null => Authorised(rid, token_payload)
              /\ token_payload.token_type \notin {"user", "owner"} => error' = "ServiceUnauthorized"
              /\ Identified(token_payload) /\ ~Authorised(rid, token_payload) =>
                    error' = "ServiceForbidden"
              /\ ~Authorised(rid, token_payload) => photos' = photos
        /\ UploadedByHolder(photos')

\* C17: upload_photos stores photos only for an authorised caller: it succeeds only for a
\* user token of the restaurant's creator or an owner token of the owner who claimed it;
\* any other existing user or owner gets ServiceForbidden, any other token type
\* ServiceUnauthorized, an unknown restaurant ServiceNotFound whatever the token, and in
\* each of these cases no photo is stored.
C17_UploadOnlyByCreatorOrOwner == [][UploadAuthAsClaimed]_vars

\* an owner who has not claimed the restaurant was refused, after its creator and the
\* owner who claimed it had both uploaded photos of it
C17_Witness ==
    /\ call.op = "upload_photos"
    /\ error = "ServiceForbidden"
    /\ call.token_payload.token_type = "owner"
    /\ call.files # <<>>
    /\ \E p, q \in BagToSet(photos) :
          /\ p.restaurant_id = call.restaurant_id /\ q.restaurant_id = call.restaurant_id
          /\ p.uploaded_by_user_id # NO_ID /\ q.uploaded_by_owner_id # NO_ID

\* what the claim says of the photo quota in one call of upload_photos
UploadQuotaAsClaimed ==
    LET rid == call'.restaurant_id
        files == call'.files
        over == Len(files) > MAX_PHOTOS_TOTAL \/ PhotoCount(photos, rid) + Len(files) > MAX_PHOTOS_TOTAL
    IN call'.op = "upload_photos" =>
        /\ over => error' # Null /\ photos' = photos
        /\ over /\ rid \in RestaurantIds /\ Authorised(rid, call'.token_payload) =>
              error' = "ServiceBadRequest"
        /\ \A r \in RestaurantIds : PhotoCount(photos', r) <= MAX_PHOTOS_TOTAL

\* C18: after any sequence of upload_photos calls run one after another no restaurant has
\* more than 5 photo records; a call with more than 5 files, or with a number of files
\* that would bring the restaurant's total above 5, raises ServiceBadRequest (for a
\* caller who passes the identity checks) and stores none of its files.
C18_PhotoQuota == [][UploadQuotaAsClaimed]_vars

\* a restaurant with 5 photos: its authorised caller's upload of one good file was refused
C18_Witness ==
    /\ call.op = "upload_photos"
    /\ error = "ServiceBadRequest"
    /\ call.restaurant_id \in RestaurantIds
    /\ Authorised(call.restaurant_id, call.token_payload)
    /\ call.files = GoodFiles(1)
    /\ PhotoCount(photos, call.restaurant_id) = MAX_PHOTOS_TOTAL

NamedPositions(lowered, names) == {i \in 1..Len(names) : Contains(lowered, Lower(names[i]))}

\* the restaurant of the context that the precedence of the specification selects, Null
\* where no rule applies
ReferenceByPrecedence(lowered, names, topic) ==
    IF NamedPositions(lowered, names) # {}
    THEN names[CHOOSE i \in NamedPositions(lowered, names) :
                    \A j \in NamedPositions(lowered, names) : i <= j]
    ELSE IF (Contains(lowered, "first") \/ Contains(lowered, "1st")) /\ 0 < Len(names)
    THEN names[1]
    ELSE IF (Contains(lowered, "second") \/ Contains(lowered, "2nd")) /\ 1 < Len(names)
    THEN names[2]
    ELSE IF (Contains(lowered, "third") \/ Contains(lowered, "3rd")) /\ 2 < Len(names)
    THEN names[3]
    ELSE IF Contains(lowered, "last") THEN names[Len(names)]
    ELSE IF Contains(lowered, "top") \/ Contains(lowered, "best") THEN names[1]
    ELSE IF AnyTokenIn(lowered, PRONOUN_FOLLOWUP_TOKENS) THEN names[1]
    ELSE IF topic # Null /\ Len(names) = 1 THEN names[1]
    ELSE Null

\* the restaurant the turn's message selects from the turn's context
SelectedByPrecedence ==
    ReferenceByPrecedence(lowered_message, followup.ranked_names, followup.followup_type)

\* C21: in a follow-up turn with a non-empty context the restaurant referred to is the one
\* the fixed precedence selects: a listed name in the message (the earliest listed), else
\* an in-range ordinal (first/1st, then second/2nd, then third/3rd), else the last item
\* for "last", else the first item for "top" or "best", else the first item for a pronoun,
\* else the only item when a topic was detected; when no rule applies the turn ends with
\* the clarification that names at most 3 candidates and answers about no restaurant.
C21_ReferencePrecedence ==
    (Decided /\ IsFollowupTurn /\ Len(followup.ranked_names) > 0)
        => IF SelectedByPrecedence # Null
           THEN /\ followup.referenced_name = SelectedByPrecedence
                /\ InCatalog(SelectedByPrecedence) =>
                    /\ followup.route = "FOLLOWUP_ANSWER"
                    /\ Lower(followup.restaurant.name) = Lower(Strip(SelectedByPrecedence))
                    /\ pc = "respond" =>
                        /\ Len(suggestions) = 1
                        /\ suggestions[1].id = followup.restaurant.id
           ELSE /\ followup.route = "FOLLOWUP_CLARIFY"
                /\ followup.restaurant = NoRestaurant
                /\ pc \in {"followup", "respond"}
                /\ pc = "respond" =>
                    /\ reply = "I can help with details, but I need the target restaurant. Do you mean: "
                                \o JoinStrings(Take(followup.ranked_names, 3), ", ")
                                \o "? You can say first/second or the exact name."
                    /\ Len(suggestions) <= 3

\* C21 witness: after a list of three names, "address of the last or the 2nd" was answered
\* about the second listed name: the ordinal wins over "last".
C21_Witness ==
    /\ pc = "respond"
    /\ message = "address of the last or the 2nd"
    /\ Len(followup.ranked_names) = 3
    /\ followup.route = "FOLLOWUP_ANSWER"
    /\ followup.restaurant.name = followup.ranked_names[2]
    /\ followup.restaurant.name # followup.ranked_names[3]

\* C21 witness of the last rule: "call them" after a list of four names selects no
\* restaurant and was answered by the clarification
C21_ClarifiedWitness ==
    /\ pc = "respond"
    /\ message = "call them"
    /\ Len(followup.ranked_names) = 4
    /\ SelectedByPrecedence = Null
    /\ followup.route = "FOLLOWUP_CLARIFY"

\* the message holds a referential cue to the context: a listed name, an ordinal word,
\* "last", "top" or "best", or a pronoun
HasReferentialCue ==
    \/ NamedPositions(lowered_message, followup.ranked_names) # {}
    \/ \E h \in 1..Len(ORDINAL_HINTS) : Contains(lowered_message, ORDINAL_HINTS[h][1])
    \/ \E t \in {"last", "top", "best"} : Contains(lowered_message, t)
    \/ AnyTokenIn(lowered_message, PRONOUN_FOLLOWUP_TOKENS)

\* C22: when a candidate list exists and the message is not a new-search request, the turn
\* is a follow-up if and only if a topic was detected or the message holds a referential
\* cue (a listed name, an ordinal word, "last", "top"/"best" or a pronoun); a topic-less
\* message whose only cue is "last", "top" or "best" is a follow-up, not a fresh search.
C22_FollowupIffTopicOrCue ==
    (/\ Decided
     /\ Len(followup.ranked_names) > 0
     /\ ~LooksLikeNewSearchRequest(clean_message))
        => (IsFollowupTurn <=> (followup.followup_type # Null \/ HasReferentialCue))

\* a token of one of the attribute topics occurs in the message
TopicDetected ==
    \E t \in 1..Len(FOLLOWUP_TOPIC_ORDER) :
        AnyTokenIn(lowered_message, FOLLOWUP_TOPIC_ORDER[t][2])

\* neither the latest assistant turn nor the latest user turn of the history yielded a
\* candidate list: ranked_names is empty after lines 183-189
NoContext == Len(followup.ranked_names) = 0

\* C23: when a topic is detected in a message that is not a new-search request and no
\* candidate list can be reconstructed from the history, the turn ends with the reply that
\* asks the user to name the restaurant and with no suggestion; the intent extractor, the
\* enricher and the composer of the search pipeline are not run.
C23_TopicWithoutContextAsksForTarget ==
    (Decided /\ TopicDetected /\ ~LooksLikeNewSearchRequest(clean_message) /\ NoContext)
        => /\ followup.route = "FOLLOWUP_CLARIFY"
           /\ pc \in {"followup", "respond"}
           /\ invoked \cap {"_extract_intent", "_fetch_tavily_context", "_build_reply"} = {}
           /\ intent = EMPTY_INTENT /\ ranked = <<>>
           /\ pc = "respond" =>
                /\ reply = "I can help with that, but I need the target restaurant first. Please mention the name, or ask for a new recommendation."
                /\ suggestions = <<>>

\* C23 witness: "what's its phone number" with an empty history was answered by the
\* request to name the restaurant.
C23_Witness ==
    /\ pc = "respond"
    /\ message = "what's its phone number"
    /\ conversation_history = <<>>
    /\ followup.route = "FOLLOWUP_CLARIFY"
    /\ suggestions = <<>>
    /\ reply = NEED_TARGET_REPLY

\* the name is, ignoring case, one of the names of the turn's context
InContext(name) ==
    \E i \in 1..Len(followup.ranked_names) : Lower(name) = Lower(followup.ranked_names[i])

\* C27: a follow-up answer concerns a restaurant of the reconstructed context only: a turn
\* that ends in FOLLOWUP_ANSWER responds with exactly one suggested restaurant, whose name
\* is, ignoring case, one of the names of the context list; and when the resolved name is
\* the name of no catalogue restaurant the turn ends in the clarification, not in an error.
C27_AnswerOnlyAboutContext ==
    /\ (pc = "respond" /\ followup.route = "FOLLOWUP_ANSWER")
            => /\ Len(suggestions) = 1
               /\ InContext(suggestions[1].name)
    /\ (/\ Decided
        /\ IsFollowupTurn
        /\ Truthy(followup.referenced_name)
        /\ ~InCatalog(followup.referenced_name))
            => /\ followup.route = "FOLLOWUP_CLARIFY"
               /\ pc \in {"followup", "respond"}

(***************************************************************************)
(* The candidate search and the score (SpecRank).                          *)
(***************************************************************************)
\* the intent carries a filter of the candidate query: a cuisine, a location or a keyword
HasAnyFilter ==
    Len(intent.cuisines) > 0 \/ Truthy(intent.location) \/ Len(intent.keywords) > 0

\* C24: the candidate search falls back to the unfiltered catalogue only when the intent
\* carries no filter at all; when a filter was given the ranked restaurants are the ones
\* that matched, even if none did: an intent with a location or keywords and no cuisine
\* whose filtered query matches no row yields an empty ranked list.
C24_FallbackOnlyWithoutFilters ==
    pc = "ranked" =>
        IF HasAnyFilter
        THEN /\ RankedRestaurants = Range(SelectMatching(restaurants, intent))
             /\ Len(SelectMatching(restaurants, intent)) = 0 => ranked = <<>>
        ELSE RankedRestaurants = Range(restaurants)

(***************************************************************************)
(* Properties of _score_restaurant (SpecScore).  Scores are in thousandths *)
(* and average ratings in hundredths of a star.                            *)
(***************************************************************************)
\* the row _score_restaurant was called for
Scored == ranked[1]

\* the restaurant's text: name, cuisine, description and amenities, lower-cased
Blob(restaurant) == TextBlob(restaurant)

InCity(restaurant, location) ==
    Truthy(location) /\ Contains(Lower(OrEmpty(restaurant.city)), Lower(location))

\* the bonuses as the specification lists them
PricePoints(restaurant) ==
    IF Truthy(intent.price_range) /\ restaurant.pricing_tier = intent.price_range THEN 2500
    ELSE IF Truthy(preferences.price_range) /\ restaurant.pricing_tier = preferences.price_range
    THEN 1500
    ELSE 0

LocationPoints(restaurant) ==
    IF InCity(restaurant, intent.location) THEN 2000
    ELSE IF \E i \in 1..Len(preferences.preferred_locations) :
                InCity(restaurant, preferences.preferred_locations[i])
    THEN 1200
    ELSE 0

AnyFound(tokens, text) ==
    \E i \in 1..Len(tokens) : tokens[i] # "" /\ Contains(text, Lower(tokens[i]))

DietaryPoints(restaurant) ==
    IF AnyFound(intent.dietary_needs \o preferences.dietary_needs, Blob(restaurant))
    THEN 1000 ELSE 0

AmbiancePoints(restaurant) ==
    IF AnyFound(intent.ambiance \o preferences.ambiance, Blob(restaurant)) THEN 800 ELSE 0

\* the positions among the first 4 intent keywords whose keyword is in the text
KeywordHits(restaurant) ==
    {i \in 1..Min(4, Len(intent.keywords)) :
        intent.keywords[i] # "" /\ Contains(Blob(restaurant), Lower(intent.keywords[i]))}

OccasionHit(restaurant) ==
    Truthy(intent.occasion) /\ Contains(Blob(restaurant), intent.occasion)

CuisinePoints(restaurant) ==
    IF ExplicitCuisineMatch(restaurant) THEN 4000
    ELSE IF SavedCuisineMatch(restaurant) THEN 2000
    ELSE 0

\* C25: the score is average_rating * 0.9 + min(review_count, 40) * 0.05 plus the
\* bonuses: cuisine +4 (requested) else +2 (saved); price +2.5 (requested tier) else +1.5
\* (saved tier); location +2 (requested) else +1.2 (a saved location); dietary +1 once;
\* ambiance +0.8 once; +0.6 for each of the first 4 keywords in the text; +0.6 for the
\* occasion in the text.  Reviews beyond 40 add nothing to the score.
C25_ScoreFormula ==
    pc = "scored" =>
        /\ Scored.score =
                Scored.average_rating * 9
                + (IF Scored.review_count < 40 THEN Scored.review_count ELSE 40) * 50
                + CuisinePoints(Scored.restaurant)
                + PricePoints(Scored.restaurant)
                + LocationPoints(Scored.restaurant)
                + DietaryPoints(Scored.restaurant)
                + AmbiancePoints(Scored.restaurant)
                + 600 * Cardinality(KeywordHits(Scored.restaurant))
                + (IF OccasionHit(Scored.restaurant) THEN 600 ELSE 0)
        /\ Scored.review_count > 40 =>
                Scored.score = ScoreRestaurant(Scored.restaurant, Scored.average_rating, 40,
                                               intent, preferences).score

\* C25 witness: a restaurant with 45 reviews was scored for an intent with five keywords,
\* of which the first four are in its text, a requested cuisine, price and location, and
\* an occasion in its text.
C25_Witness ==
    /\ pc = "scored"
    /\ Scored.review_count = 45
    /\ Len(intent.keywords) = 5
    /\ Cardinality(KeywordHits(Scored.restaurant)) = 4
    /\ CuisinePoints(Scored.restaurant) = 4000
    /\ PricePoints(Scored.restaurant) = 2500
    /\ LocationPoints(Scored.restaurant) = 2000
    /\ OccasionHit(Scored.restaurant)

\* how many bonuses were triggered for the restaurant: cuisine, price, location, dietary,
\* ambiance, keyword hit and occasion hit, each counted once
TriggeredBonuses(restaurant) ==
    (IF CuisinePoints(restaurant) > 0 THEN 1 ELSE 0)
    + (IF PricePoints(restaurant) > 0 THEN 1 ELSE 0)
    + (IF LocationPoints(restaurant) > 0 THEN 1 ELSE 0)
    + (IF DietaryPoints(restaurant) > 0 THEN 1 ELSE 0)
    + (IF AmbiancePoints(restaurant) > 0 THEN 1 ELSE 0)
    + (IF KeywordHits(restaurant) # {} THEN 1 ELSE 0)
    + (IF OccasionHit(restaurant) THEN 1 ELSE 0)

IsRatedReason(reason) == Len(reason) >= 6 /\ SubSeq(reason, 1, 6) = "Rated "

\* C26: the reasons list holds one reason for every bonus that was triggered (cuisine,
\* price, location, dietary, ambiance, keyword hit, occasion hit), followed by the
\* trailing "Rated" reason exactly when review_count > 0: no bonus changes the score
\* without appending a reason.
C26_ReasonForEveryBonus ==
    pc = "scored" =>
        /\ Len(Scored.reasons)
                = TriggeredBonuses(Scored.restaurant) + (IF Scored.review_count > 0 THEN 1 ELSE 0)
        /\ Scored.review_count > 0 <=>
                (Len(Scored.reasons) > 0 /\ IsRatedReason(Scored.reasons[Len(Scored.reasons)]))
        /\ \A i \in 1..(Len(Scored.reasons) - 1) : ~IsRatedReason(Scored.reasons[i])

(***************************************************************************)
(* The frame of generate_chat_response (Spec).                             *)
(***************************************************************************)
\* the tables of the database the assistant reads, the favorites table, and the
\* module-level settings
DatabaseAndModuleState == <<restaurants, reviews, user_preferences, favorites, settings>>

\* the locals of generate_chat_response hold nothing of an earlier call
FreshCall ==
    /\ preferences = EMPTY_PREFERENCES
    /\ intent = EMPTY_INTENT
    /\ ranked = <<>>
    /\ NoTurn

====
